---- MODULE Spec2Model ----
(***************************************************************************)
(* Model of the Todoist autolabel service: the SQLite-backed store         *)
(* (DatabaseManager, src/src/database.ts) and the sync orchestrator        *)
(* (SyncManager, src/src/sync.ts:178-430) with its two collaborators, the  *)
(* Todoist API wrapper and the classifier, as the orchestrator uses them.  *)
(*                                                                         *)
(* JavaScript runs one callback at a time: the code between two awaits is  *)
(* one atomic step of the process that runs it.  A step that makes several *)
(* store writes is modelled by the sequence of store states it goes        *)
(* through, so that a process crash can stop it after any of its writes.   *)
(***************************************************************************)
EXTENDS Integers, Sequences, FiniteSets, TLC

(* ------------------------------------------------------------------ *)
(* Bounds of the model                                                *)
(* ------------------------------------------------------------------ *)
MaxClock == 1
MaxErrSeq == 2
MaxStoreOps == 4
MaxLogCalls == 4
MaxErrorLogsCfg == 2

(* ------------------------------------------------------------------ *)
(* Program constants                                                  *)
(* ------------------------------------------------------------------ *)
MAX_ATTEMPTS == 3
RETRYABLE_BELOW == 3

TaskIds == {"t1", "t2"}
Contents == {"c1", "c2"}
Callers == {"s1", "s2"}
Procs == Callers \cup {"retry"}
Statuses == {"pending", "classified", "failed", "skipped"}
ErrorTypes == {"CLASSIFICATION_ERROR", "CLASSIFICATION_EMPTY", "SYNC_ERROR"}

(* SQL NULL, for timestamp columns, for the labels column and for task_id *)
NullTime == -1
NullLabels == <<>>
NullTask == "null"

VARIABLES
  clock,        \* the value datetime('now') returns
  maxErrorLogs, \* config.maxErrorLogs, fixed at construction
  db,           \* the SQLite file: tasks, error_logs, sync_state
  provider,     \* the tasks as they are at Todoist
  isRunning,    \* SyncManager.isRunning
  pc,           \* where each invocation stands (the await it is suspended at)
  queue,        \* tasks still to process in the invocation's loop
  cur,          \* the task being processed
  att,          \* processTask's local `attempts`
  labs,         \* the labels the classifier returned for cur
  stats,        \* the invocation's counters
  ret,          \* how the invocation's promise settled
  hist          \* history: calls made to the collaborators, last store call

vars == <<clock, maxErrorLogs, db, provider, isRunning, pc, queue, cur, att,
          labs, stats, ret, hist>>

(* ------------------------------------------------------------------ *)
(* Helpers                                                            *)
(* ------------------------------------------------------------------ *)
Last(s) == s[Len(s)]

RECURSIVE JoinTokens(_)
JoinTokens(labels) ==
  IF Len(labels) = 0 THEN <<>>
  ELSE IF Len(labels) = 1 THEN <<labels[1]>>
  ELSE <<labels[1], ",">> \o JoinTokens(Tail(labels))

(* JSON.stringify of a string array, as a sequence of tokens *)
JSONStringify(labels) == <<"[">> \o JoinTokens(labels) \o <<"]">>

(* ------------------------------------------------------------------ *)
(* DatabaseManager: every operation maps a store state to a store state *)
(* ------------------------------------------------------------------ *)
EmptyDb == [tasks |-> <<>>, errors |-> {}, errSeq |-> 0, lastSyncAt |-> NullTime]

HasTask(d, id) == id \in DOMAIN d.tasks

getTask(d, id) ==
  IF HasTask(d, id) THEN [found |-> TRUE, rec |-> d.tasks[id]]
  ELSE [found |-> FALSE, rec |-> [status |-> "none", attempts |-> 0]]

NewTaskRow(content, now) ==
  [content |-> content, status |-> "pending", labels |-> NullLabels,
   attempts |-> 0, lastAttemptAt |-> NullTime, classifiedAt |-> NullTime,
   createdAt |-> now, updatedAt |-> now]

SetTask(d, id, row) ==
  [d EXCEPT !.tasks = [k \in (DOMAIN d.tasks) \cup {id} |->
                         IF k = id THEN row ELSE d.tasks[k]]]

(* variant: INSERT OR REPLACE, the row is written anew *)
upsertTaskReplaces(d, id, content, now) == SetTask(d, id, NewTaskRow(content, now))

upsertTask(d, id, content, now) ==
  IF HasTask(d, id)
  THEN SetTask(d, id, [d.tasks[id] EXCEPT !.content = content, !.updatedAt = now])
  ELSE SetTask(d, id, NewTaskRow(content, now))

(* variant: only the first label is stored *)
markTaskClassifiedTruncates(d, id, labels, now) ==
  IF HasTask(d, id)
  THEN SetTask(d, id, [d.tasks[id] EXCEPT !.status = "classified",
                                          !.labels = JSONStringify(<<Head(labels)>>),
                                          !.classifiedAt = now,
                                          !.updatedAt = now])
  ELSE d

markTaskClassified(d, id, labels, now) ==
  IF HasTask(d, id)
  THEN SetTask(d, id, [d.tasks[id] EXCEPT !.status = "classified",
                                          !.labels = JSONStringify(labels),
                                          !.classifiedAt = now,
                                          !.updatedAt = now])
  ELSE d

(* variant: the counter is set, not incremented *)
markTaskAttemptedSets(d, id, now) ==
  IF HasTask(d, id)
  THEN SetTask(d, id, [d.tasks[id] EXCEPT !.attempts = 1,
                                          !.lastAttemptAt = now,
                                          !.updatedAt = now])
  ELSE d

markTaskAttempted(d, id, now) ==
  IF HasTask(d, id)
  THEN SetTask(d, id, [d.tasks[id] EXCEPT !.attempts = @ + 1,
                                          !.lastAttemptAt = now,
                                          !.updatedAt = now])
  ELSE d

markTaskFailed(d, id, now) ==
  IF HasTask(d, id)
  THEN SetTask(d, id, [d.tasks[id] EXCEPT !.status = "failed", !.updatedAt = now])
  ELSE d

markTaskSkipped(d, id, now) ==
  IF HasTask(d, id)
  THEN SetTask(d, id, [d.tasks[id] EXCEPT !.status = "skipped", !.updatedAt = now])
  ELSE d

saveLastSyncAt(d, now) == [d EXCEPT !.lastSyncAt = now]

(* ORDER BY created_at ASC over error_logs: the index on created_at lists
   rows of one second in rowid order *)
ErrBefore(a, b) ==
  \/ a.createdAt < b.createdAt
  \/ a.createdAt = b.createdAt /\ a.id < b.id

(* variant: ORDER BY created_at DESC *)
NewestErrors(rows, n) ==
  {r \in rows : Cardinality({q \in rows : ErrBefore(r, q)}) < n}

(* SELECT id FROM error_logs ORDER BY created_at ASC LIMIT n *)
OldestErrors(rows, n) ==
  {r \in rows : Cardinality({q \in rows : ErrBefore(q, r)}) < n}

purgeOldErrorLogs(d, max) ==
  LET count == Cardinality(d.errors) IN
  IF count > max
  THEN [d EXCEPT !.errors = d.errors \ OldestErrors(d.errors, count - max)]
  ELSE d

InsertError(d, errorType, taskId, now) ==
  [d EXCEPT !.errors = d.errors \cup
                {[id |-> d.errSeq + 1, taskId |-> taskId,
                  errorType |-> errorType, createdAt |-> now]},
            !.errSeq = d.errSeq + 1]

logError(d, errorType, taskId, now, max) ==
  purgeOldErrorLogs(InsertError(d, errorType, taskId, now), max)

(* ------------------------------------------------------------------ *)
(* The collaborators as SyncManager sees them                         *)
(* ------------------------------------------------------------------ *)
NoTask == [id |-> "none", content |-> "none", labels |-> <<>>, isCompleted |-> FALSE]
ZeroStats == [processed |-> 0, classified |-> 0, failed |-> 0, skipped |-> 0]
NoRet == [who |-> "none", kind |-> "none", stats |-> ZeroStats]

Gone == [exists |-> FALSE, labels |-> <<>>, isCompleted |-> FALSE]
ExternalLabels == <<"urgent">>
ClassifierLabelLists == {<<>>, <<"work">>}
ProviderTaskStates ==
  {Gone} \cup [exists : {TRUE}, labels : {<<>>, ExternalLabels, <<"work">>},
               isCompleted : BOOLEAN]

ContentOf(id) == "c1"

(* the tasks somebody edits at Todoist while the service runs; the other
   tasks stay as they were when the service started, until they are deleted *)
Edited == {"t1"}
InitialProviders ==
  {f \in [TaskIds -> ProviderTaskStates] :
     \A t \in TaskIds \ Edited :
       f[t] \in {Gone, [exists |-> TRUE, labels |-> ExternalLabels, isCompleted |-> FALSE]}}

(* api.getInboxTasks(): the tasks of the inbox, in the order `order` *)
RECURSIVE getInboxTasks(_, _)
getInboxTasks(prov, order) ==
  IF order = <<>> THEN <<>>
  ELSE LET id == Head(order) IN
       IF prov[id].exists
       THEN <<[id |-> id, content |-> ContentOf(id), labels |-> prov[id].labels,
               isCompleted |-> prov[id].isCompleted]>>
            \o getInboxTasks(prov, Tail(order))
       ELSE getInboxTasks(prov, Tail(order))

ListingOrders == {<<"t1", "t2">>, <<"t2", "t1">>}

(* the outcomes of classifier.classifyTask(): it throws or returns labels *)
ClassifierOutcomes ==
  {[throws |-> TRUE, labels |-> <<>>]} \cup
  {[throws |-> FALSE, labels |-> l] : l \in ClassifierLabelLists}

(* ------------------------------------------------------------------ *)
(* SyncManager: the code between two awaits, as the store states it   *)
(* goes through (tr) and the invocation's state at the next await     *)
(* ------------------------------------------------------------------ *)
DbAfter(tr) == IF tr = <<>> THEN db ELSE Last(tr)

(* a storage failure: while it lasts, the store operation `op` throws when
   it is called for the task `id`, and writes nothing *)
NoFault == [op |-> "none", id |-> "none"]
FaultOps == {"upsertTask", "markTaskAttempted", "markTaskClassified",
             "markTaskFailed", "logError"}
Faulty(op, id) == hist.fault = [op |-> op, id |-> id]

(* variant: only tasks without a record pass the filter *)
RecordAllowsNewOnly(d, id) == ~getTask(d, id).found

(* variant: no attempts check in the filter *)
RecordAllowsUnbounded(d, id) ==
  LET taskRecord == getTask(d, id) IN
  IF taskRecord.found
  THEN ~ \/ taskRecord.rec.status = "classified"
         \/ taskRecord.rec.status = "skipped"
         \/ taskRecord.rec.status = "failed"
  ELSE TRUE

(* variant: no classified check in the filter *)
RecordAllowsClassified(d, id) ==
  LET taskRecord == getTask(d, id) IN
  IF taskRecord.found
  THEN ~ \/ taskRecord.rec.status = "skipped"
         \/ taskRecord.rec.status = "failed"
         \/ taskRecord.rec.attempts >= MAX_ATTEMPTS
  ELSE TRUE

(* the record check of sync()'s filter, for an uncompleted unlabeled task *)
RecordAllows(d, id) ==
  LET taskRecord == getTask(d, id) IN
  IF taskRecord.found
  THEN ~ \/ taskRecord.rec.status = "classified"
         \/ taskRecord.rec.status = "skipped"
         \/ taskRecord.rec.status = "failed"
         \/ taskRecord.rec.attempts >= MAX_ATTEMPTS
  ELSE TRUE

(* the filter's branch for a task that carries labels: the writes it makes *)
(* variant: labelled tasks are marked skipped whether tracked or not *)
MarkLabelledTracked(d, task) ==
  LET d1 == upsertTask(d, task.id, task.content, clock)
  IN <<d1, markTaskSkipped(d1, task.id, clock)>>

MarkLabelled(d, task) ==
  IF ~getTask(d, task.id).found
  THEN LET d1 == upsertTask(d, task.id, task.content, clock)
       IN <<d1, markTaskSkipped(d1, task.id, clock)>>
  ELSE <<>>

(* variant: no isCompleted check in the filter *)
RECURSIVE FilterTasksCompleted(_, _, _, _)
FilterTasksCompleted(d, listing, tr, keep) ==
  IF listing = <<>> THEN [tr |-> tr, keep |-> keep]
  ELSE
    LET task == Head(listing)
        rest == Tail(listing)
    IN
    IF Len(task.labels) > 0
    THEN LET w == MarkLabelled(d, task)
         IN FilterTasksCompleted(IF w = <<>> THEN d ELSE Last(w), rest, tr \o w, keep)
    ELSE IF RecordAllows(d, task.id)
    THEN FilterTasksCompleted(d, rest, tr, Append(keep, task))
    ELSE FilterTasksCompleted(d, rest, tr, keep)

(* tasks.filter(...) of sync(): the writes it makes and the tasks it keeps *)
RECURSIVE FilterTasks(_, _, _, _)
FilterTasks(d, listing, tr, keep) ==
  IF listing = <<>> THEN [tr |-> tr, keep |-> keep]
  ELSE
    LET task == Head(listing)
        rest == Tail(listing)
    IN
    IF task.isCompleted THEN FilterTasks(d, rest, tr, keep)
    ELSE IF Len(task.labels) > 0
    THEN LET w == MarkLabelled(d, task)
         IN FilterTasks(IF w = <<>> THEN d ELSE Last(w), rest, tr \o w, keep)
    ELSE IF RecordAllows(d, task.id)
    THEN FilterTasks(d, rest, tr, Append(keep, task))
    ELSE FilterTasks(d, rest, tr, keep)

(* variant: a task that was not classified is counted nowhere *)
CountClassifiedOnly(p, st, success) ==
  IF success THEN [st EXCEPT !.classified = @ + 1] ELSE st

(* what the caller of processTask does with its result *)
Count(p, st, success) ==
  IF success THEN [st EXCEPT !.classified = @ + 1]
  ELSE IF p \in Callers THEN [st EXCEPT !.failed = @ + 1]
  ELSE st

RECURSIVE NextTask(_, _, _, _)

(* variant: the classifier is invoked without counting the attempt *)
ProcessTaskStartUncounted(p, tr, task, st, q) ==
  LET d  == DbAfter(tr)
      d1 == upsertTask(d, task.id, task.content, clock)
      taskRecord == getTask(d1, task.id)
      attempts == IF taskRecord.found THEN taskRecord.rec.attempts ELSE 0
  IN [tr |-> Append(tr, d1), pc |-> "classify", queue |-> q, cur |-> task,
      att |-> attempts, labs |-> <<>>, stats |-> st, run |-> isRunning,
      settle |-> NoRet, invoke |-> task.id]

(* processTask up to `await classifier.classifyTask(...)`; a store call that
   throws here leaves processTask and is caught by the loop that called it *)
ProcessTaskStart(p, tr, task, st, q) ==
  LET d  == DbAfter(tr)
      d1 == upsertTask(d, task.id, task.content, clock)
      taskRecord == getTask(d1, task.id)
      attempts == IF taskRecord.found THEN taskRecord.rec.attempts ELSE 0
      d2 == markTaskAttempted(d1, task.id, clock)
  IN IF Faulty("upsertTask", task.id)
     THEN NextTask(p, tr, Count(p, st, FALSE), q)
     ELSE IF Faulty("markTaskAttempted", task.id)
     THEN NextTask(p, Append(tr, d1), Count(p, st, FALSE), q)
     ELSE [tr |-> tr \o <<d1, d2>>, pc |-> "classify", queue |-> q, cur |-> task,
           att |-> attempts, labs |-> <<>>, stats |-> st, run |-> isRunning,
           settle |-> NoRet, invoke |-> task.id]

(* the loop of sync() or of retryFailedTasks() moving to its next task *)
NextTask(p, tr, st, q) ==
  IF p \in Callers
  THEN IF q = <<>>
       THEN [tr |-> Append(tr, saveLastSyncAt(DbAfter(tr), clock)), pc |-> "idle",
             queue |-> <<>>, cur |-> NoTask, att |-> 0, labs |-> <<>>,
             stats |-> ZeroStats, run |-> FALSE,
             settle |-> [who |-> p, kind |-> "resolved", stats |-> st],
             invoke |-> "none"]
       ELSE ProcessTaskStart(p, tr, Head(q), [st EXCEPT !.processed = @ + 1], Tail(q))
  ELSE IF q = <<>>
       THEN [tr |-> tr, pc |-> "idle", queue |-> <<>>, cur |-> NoTask, att |-> 0,
             labs |-> <<>>, stats |-> ZeroStats, run |-> isRunning,
             settle |-> [who |-> p, kind |-> "resolved", stats |-> st],
             invoke |-> "none"]
       ELSE [tr |-> tr, pc |-> "fetch", queue |-> Tail(q), cur |-> Head(q), att |-> 0,
             labs |-> <<>>, stats |-> st, run |-> isRunning, settle |-> NoRet,
             invoke |-> "none"]

(* variant: the threshold compared with the count read before the increment *)
ProcessTaskCatchStale(p) ==
  LET id == cur[p].id
      d1 == logError(db, "CLASSIFICATION_ERROR", id, clock, maxErrorLogs)
      tr == IF att[p] >= MAX_ATTEMPTS
            THEN <<d1, markTaskFailed(d1, id, clock)>>
            ELSE <<d1>>
  IN NextTask(p, tr, Count(p, stats[p], FALSE), queue[p])

(* variant: no per-task catch, the error ends the tick through the outer
   catch and finally of sync() *)
ProcessTaskCatchRethrows(p) ==
  LET d1 == logError(db, "CLASSIFICATION_ERROR", cur[p].id, clock, maxErrorLogs)
  IN [tr |-> <<d1, logError(d1, "SYNC_ERROR", NullTask, clock, maxErrorLogs)>>,
      pc |-> "idle", queue |-> <<>>, cur |-> NoTask, att |-> 0, labs |-> <<>>,
      stats |-> ZeroStats, run |-> FALSE,
      settle |-> [who |-> p, kind |-> "rejected", stats |-> ZeroStats],
      invoke |-> "none"]

(* variant: a failure after the classifier call does not end the attempt:
   the record is marked classified *)
ProcessTaskCatchClassifies(p) ==
  LET d1 == markTaskClassified(db, cur[p].id, labs[p], clock)
  IN NextTask(p, <<d1>>, Count(p, stats[p], TRUE), queue[p])

(* variant: the threshold counts the errors of all tasks *)
ProcessTaskCatchShared(p) ==
  LET id == cur[p].id
      d1 == logError(db, "CLASSIFICATION_ERROR", id, clock, maxErrorLogs)
      tr == IF d1.errSeq >= MAX_ATTEMPTS
            THEN <<d1, markTaskFailed(d1, id, clock)>>
            ELSE <<d1>>
  IN NextTask(p, tr, Count(p, stats[p], FALSE), queue[p])

(* the catch block of processTask; a store call that throws in it leaves
   processTask and is caught by the loop that called it *)
ProcessTaskCatch(p) ==
  LET id == cur[p].id
      d1 == logError(db, "CLASSIFICATION_ERROR", id, clock, maxErrorLogs)
      tr == IF Faulty("logError", id) THEN <<>>
            ELSE IF att[p] + 1 >= MAX_ATTEMPTS /\ ~Faulty("markTaskFailed", id)
            THEN <<d1, markTaskFailed(d1, id, clock)>>
            ELSE <<d1>>
  IN NextTask(p, tr, Count(p, stats[p], FALSE), queue[p])

(* variant: every empty result is logged *)
ProcessTaskEmptyLogsAll(p) ==
  LET id == cur[p].id
      d0 == logError(db, "CLASSIFICATION_EMPTY", id, clock, maxErrorLogs)
      tr == IF att[p] + 1 >= MAX_ATTEMPTS
            THEN <<d0, markTaskFailed(d0, id, clock)>>
            ELSE <<d0>>
  IN NextTask(p, tr, Count(p, stats[p], FALSE), queue[p])

(* processTask after the classifier returned an empty list; a store call
   that throws here is inside the try block: the catch block runs *)
ProcessTaskEmpty(p) ==
  LET id == cur[p].id
      d1 == markTaskFailed(db, id, clock)
      tr == IF att[p] + 1 >= MAX_ATTEMPTS
            THEN <<d1, logError(d1, "CLASSIFICATION_EMPTY", id, clock, maxErrorLogs)>>
            ELSE <<>>
  IN IF att[p] + 1 >= MAX_ATTEMPTS /\ Faulty("markTaskFailed", id)
     THEN ProcessTaskCatch(p)
     ELSE IF att[p] + 1 >= MAX_ATTEMPTS /\ Faulty("logError", id)
     THEN NextTask(p, <<d1>>, Count(p, stats[p], FALSE), queue[p])
     ELSE NextTask(p, tr, Count(p, stats[p], FALSE), queue[p])

(* processTask after the classifier returned labels: the update is awaited *)
ProcessTaskLabels(p, labels) ==
  [tr |-> <<>>, pc |-> "update", queue |-> queue[p], cur |-> cur[p], att |-> att[p],
   labs |-> labels, stats |-> stats[p], run |-> isRunning, settle |-> NoRet,
   invoke |-> "none"]

AfterClassifier(p, out) ==
  IF out.throws THEN ProcessTaskCatch(p)
  ELSE IF Len(out.labels) = 0 THEN ProcessTaskEmpty(p)
  ELSE ProcessTaskLabels(p, out.labels)

(* variant: the success path counts the attempt once more *)
ProcessTaskUpdatedRecounts(p) ==
  LET d1 == markTaskAttempted(db, cur[p].id, clock)
      d2 == markTaskClassified(d1, cur[p].id, labs[p], clock)
  IN NextTask(p, <<d1, d2>>, Count(p, stats[p], TRUE), queue[p])

(* processTask after api.updateTaskLabels resolved *)
ProcessTaskUpdated(p) ==
  LET d1 == markTaskClassified(db, cur[p].id, labs[p], clock)
  IN IF Faulty("markTaskClassified", cur[p].id)
     THEN ProcessTaskCatch(p)
     ELSE NextTask(p, <<d1>>, Count(p, stats[p], TRUE), queue[p])

(* variant: the eligible tasks are processed last-listed first *)
SyncAfterListingReversed(p, listing) ==
  LET f == FilterTasks(db, listing, <<>>, <<>>)
      n == Len(f.keep)
  IN NextTask(p, f.tr, ZeroStats, [i \in 1..n |-> f.keep[n + 1 - i]])

(* sync() after api.getInboxTasks() resolved with `listing` *)
SyncAfterListing(p, listing) ==
  LET f == FilterTasks(db, listing, <<>>, <<>>)
  IN NextTask(p, f.tr, ZeroStats, f.keep)

(* variant: the listing failure is logged and swallowed, the tick ends as
   an empty one *)
SyncListingFailedSwallows(p) ==
  LET d1 == logError(db, "SYNC_ERROR", NullTask, clock, maxErrorLogs)
  IN [tr |-> <<d1, saveLastSyncAt(d1, clock)>>,
      pc |-> "idle", queue |-> <<>>, cur |-> NoTask, att |-> 0, labs |-> <<>>,
      stats |-> ZeroStats, run |-> FALSE,
      settle |-> [who |-> p, kind |-> "resolved", stats |-> ZeroStats],
      invoke |-> "none"]

(* variant: the aborted tick records its time before the rethrow *)
SyncListingFailedSaves(p) ==
  LET d1 == logError(db, "SYNC_ERROR", NullTask, clock, maxErrorLogs)
  IN [tr |-> <<d1, saveLastSyncAt(d1, clock)>>,
      pc |-> "idle", queue |-> <<>>, cur |-> NoTask, att |-> 0, labs |-> <<>>,
      stats |-> ZeroStats, run |-> FALSE,
      settle |-> [who |-> p, kind |-> "rejected", stats |-> ZeroStats],
      invoke |-> "none"]

(* variant: no finally block, the flag stays set after the rethrow *)
SyncListingFailedKeepsFlag(p) ==
  [tr |-> <<logError(db, "SYNC_ERROR", NullTask, clock, maxErrorLogs)>>,
   pc |-> "idle", queue |-> <<>>, cur |-> NoTask, att |-> 0, labs |-> <<>>,
   stats |-> ZeroStats, run |-> TRUE,
   settle |-> [who |-> p, kind |-> "rejected", stats |-> ZeroStats],
   invoke |-> "none"]

(* sync() after api.getInboxTasks() rejected: catch and finally *)
SyncListingFailed(p) ==
  [tr |-> <<logError(db, "SYNC_ERROR", NullTask, clock, maxErrorLogs)>>,
   pc |-> "idle", queue |-> <<>>, cur |-> NoTask, att |-> 0, labs |-> <<>>,
   stats |-> ZeroStats, run |-> FALSE,
   settle |-> [who |-> p, kind |-> "rejected", stats |-> ZeroStats],
   invoke |-> "none"]

(* variant: no check of the labels the task carries now *)
RetryAfterFetchIgnoresLabels(p, found) ==
  LET id == cur[p].id IN
  IF ~found
  THEN NextTask(p, <<markTaskSkipped(db, id, clock)>>, stats[p], queue[p])
  ELSE ProcessTaskStart(p, <<>>,
                        [id |-> id, content |-> ContentOf(id),
                         labels |-> provider[id].labels,
                         isCompleted |-> provider[id].isCompleted],
                        stats[p], queue[p])

(* retryFailedTasks() after api.getTask() resolved with null or the task *)
RetryAfterFetch(p, found) ==
  LET id == cur[p].id IN
  IF ~found \/ Len(provider[id].labels) > 0
  THEN NextTask(p, <<markTaskSkipped(db, id, clock)>>, stats[p], queue[p])
  ELSE ProcessTaskStart(p, <<>>,
                        [id |-> id, content |-> ContentOf(id),
                         labels |-> provider[id].labels,
                         isCompleted |-> provider[id].isCompleted],
                        stats[p], queue[p])

(* getPendingRetryableTasks(): pending, attempts < 3, ORDER BY created_at ASC;
   SQL leaves the order of rows with equal created_at open *)
Retryable(d) ==
  {id \in DOMAIN d.tasks :
     d.tasks[id].status = "pending" /\ d.tasks[id].attempts < RETRYABLE_BELOW}

(* variant: no ORDER BY *)
getPendingRetryableTasksUnordered(d) ==
  LET ids == Retryable(d)
      n == Cardinality(ids)
  IN {[i \in 1..n |-> [id |-> f[i], content |-> d.tasks[f[i]].content,
                        labels |-> <<>>, isCompleted |-> FALSE]] :
        f \in {g \in [1..n -> ids] : \A i, j \in 1..n : i # j => g[i] # g[j]}}

getPendingRetryableTasks(d) ==
  LET ids == Retryable(d)
      n == Cardinality(ids)
  IN {[i \in 1..n |-> [id |-> f[i], content |-> d.tasks[f[i]].content,
                        labels |-> <<>>, isCompleted |-> FALSE]] :
        f \in {g \in [1..n -> ids] :
                 /\ \A i, j \in 1..n : i # j => g[i] # g[j]
                 /\ \A i, j \in 1..n :
                      i < j => d.tasks[g[i]].createdAt <= d.tasks[g[j]].createdAt}}

(* ------------------------------------------------------------------ *)
(* Steps                                                              *)
(* ------------------------------------------------------------------ *)
NoEvent == [res |-> "none", labels |-> <<>>]

(* history kept for the properties: how each finished attempt of a task ended *)
Traced(h, id, ev) ==
  IF h.tracing /\ ev # NoEvent
  THEN [h EXCEPT !.trace[id] = Append(@, ev)]
  ELSE h

ApplyEv(p, seg, ev) ==
  /\ db' = DbAfter(seg.tr)
  /\ pc' = [pc EXCEPT ![p] = seg.pc]
  /\ queue' = [queue EXCEPT ![p] = seg.queue]
  /\ cur' = [cur EXCEPT ![p] = seg.cur]
  /\ att' = [att EXCEPT ![p] = seg.att]
  /\ labs' = [labs EXCEPT ![p] = seg.labs]
  /\ stats' = [stats EXCEPT ![p] = seg.stats]
  /\ isRunning' = seg.run
  /\ ret' = seg.settle
  /\ hist' = LET h == Traced(hist, cur[p].id, ev) IN
             IF seg.invoke = "none" THEN h
             ELSE [h EXCEPT !.classifyCalls[seg.invoke] = @ + 1]
  /\ UNCHANGED <<clock, maxErrorLogs, provider>>

Apply(p, seg) == ApplyEv(p, seg, NoEvent)

(* variant: no busy check *)
SyncBeginUnguarded(c) ==
  /\ pc[c] = "idle"
  /\ isRunning' = TRUE
  /\ pc' = [pc EXCEPT ![c] = "list"]
  /\ ret' = NoRet
  /\ UNCHANGED <<clock, maxErrorLogs, db, provider, queue, cur, att, labs,
                 stats, hist>>

(* variant: the early return clears the flag *)
SyncBeginClearsFlag(c) ==
  /\ pc[c] = "idle"
  /\ \/ /\ isRunning
        /\ ret' = [who |-> c, kind |-> "busy", stats |-> ZeroStats]
        /\ isRunning' = FALSE
        /\ UNCHANGED <<clock, maxErrorLogs, db, provider, pc, queue,
                       cur, att, labs, stats, hist>>
     \/ /\ ~isRunning
        /\ isRunning' = TRUE
        /\ pc' = [pc EXCEPT ![c] = "list"]
        /\ ret' = NoRet
        /\ UNCHANGED <<clock, maxErrorLogs, db, provider, queue, cur, att, labs,
                       stats, hist>>

(* sync() up to `await api.getInboxTasks()`, or its early return *)
SyncBegin(c) ==
  /\ pc[c] = "idle"
  /\ \/ /\ isRunning
        /\ ret' = [who |-> c, kind |-> "busy", stats |-> ZeroStats]
        /\ UNCHANGED <<clock, maxErrorLogs, db, provider, isRunning, pc, queue,
                       cur, att, labs, stats, hist>>
     \/ /\ ~isRunning
        /\ isRunning' = TRUE
        /\ pc' = [pc EXCEPT ![c] = "list"]
        /\ ret' = NoRet
        /\ UNCHANGED <<clock, maxErrorLogs, db, provider, queue, cur, att, labs,
                       stats, hist>>

SyncListed(c) ==
  /\ pc[c] = "list"
  /\ \E order \in ListingOrders :
       Apply(c, SyncAfterListing(c, getInboxTasks(provider, order)))

SyncListFails(c) ==
  /\ pc[c] = "list"
  /\ db.errSeq < MaxErrSeq
  /\ Apply(c, SyncListingFailed(c))

ClassifierThrows(p) ==
  /\ pc[p] = "classify"
  /\ ApplyEv(p, AfterClassifier(p, [throws |-> TRUE, labels |-> <<>>]),
             [res |-> "throw", labels |-> <<>>])

ClassifierReturns(p) ==
  /\ pc[p] = "classify"
  /\ \E l \in ClassifierLabelLists :
       ApplyEv(p, AfterClassifier(p, [throws |-> FALSE, labels |-> l]),
               IF l = <<>> THEN [res |-> "empty", labels |-> <<>>] ELSE NoEvent)

(* Todoist handles the update request of api.updateTaskLabels *)
ProviderUpdates(p) ==
  /\ pc[p] = "update"
  /\ provider[cur[p].id].exists
  /\ provider' = [provider EXCEPT ![cur[p].id].labels = labs[p]]
  /\ pc' = [pc EXCEPT ![p] = "updated"]
  /\ UNCHANGED <<clock, maxErrorLogs, db, isRunning, queue, cur, att, labs,
                 stats, hist>>
  /\ ret' = NoRet

ProviderRejects(p) ==
  /\ pc[p] = "update"
  /\ pc' = [pc EXCEPT ![p] = "updfail"]
  /\ UNCHANGED <<clock, maxErrorLogs, db, provider, isRunning, queue, cur, att,
                 labs, stats, hist>>
  /\ ret' = NoRet

UpdateResolved(p) ==
  /\ pc[p] = "updated"
  /\ ApplyEv(p, ProcessTaskUpdated(p), [res |-> "ok", labels |-> labs[p]])

UpdateRejected(p) ==
  /\ pc[p] = "updfail"
  /\ ApplyEv(p, ProcessTaskCatch(p), [res |-> "updfail", labels |-> labs[p]])

(* retryFailedTasks() up to its first `await api.getTask(...)` *)
RetryBegin ==
  /\ pc["retry"] = "idle"
  /\ \E q \in getPendingRetryableTasks(db) :
       Apply("retry", NextTask("retry", <<>>, ZeroStats, q))

(* api.getTask resolves: null when the request fails for any reason *)
RetryFetched ==
  /\ pc["retry"] = "fetch"
  /\ \E found \in (IF provider[cur["retry"].id].exists THEN {TRUE, FALSE} ELSE {FALSE}) :
       Apply("retry", RetryAfterFetch("retry", found))

(* what happens at Todoist outside the service *)
ExtLabel(t) ==
  /\ provider[t].exists
  /\ provider[t].labels # ExternalLabels
  /\ provider' = [provider EXCEPT ![t].labels = ExternalLabels]
  /\ UNCHANGED <<clock, maxErrorLogs, db, isRunning, pc, queue, cur, att, labs,
                 stats, hist>>
  /\ ret' = NoRet

ExtUnlabel(t) ==
  /\ provider[t].exists
  /\ provider[t].labels # <<>>
  /\ provider' = [provider EXCEPT ![t].labels = <<>>]
  /\ UNCHANGED <<clock, maxErrorLogs, db, isRunning, pc, queue, cur, att, labs,
                 stats, hist>>
  /\ ret' = NoRet

ExtComplete(t) ==
  /\ provider[t].exists
  /\ provider' = [provider EXCEPT ![t].isCompleted = ~@]
  /\ UNCHANGED <<clock, maxErrorLogs, db, isRunning, pc, queue, cur, att, labs,
                 stats, hist>>
  /\ ret' = NoRet

ExtDelete(t) ==
  /\ provider[t].exists
  /\ provider' = [provider EXCEPT ![t] = Gone]
  /\ UNCHANGED <<clock, maxErrorLogs, db, isRunning, pc, queue, cur, att, labs,
                 stats, hist>>
  /\ ret' = NoRet

AllIdle == \A p \in Procs : pc[p] = "idle"

(* the steps an invocation suspended at an await may run next *)
PossibleSegs(p) ==
  IF pc[p] = "list"
  THEN (IF db.errSeq < MaxErrSeq THEN {SyncListingFailed(p)} ELSE {}) \cup
       {SyncAfterListing(p, getInboxTasks(provider, o)) : o \in ListingOrders}
  ELSE IF pc[p] = "classify" THEN {AfterClassifier(p, out) : out \in ClassifierOutcomes}
  ELSE IF pc[p] = "updated" THEN {ProcessTaskUpdated(p)}
  ELSE IF pc[p] = "updfail" THEN {ProcessTaskCatch(p)}
  ELSE IF pc[p] = "fetch"
  THEN {RetryAfterFetch(p, found) : found \in {TRUE, provider[cur[p].id].exists}}
  ELSE {}

(* the store states a process crash can leave: between any two writes *)
CrashStores ==
  {db} \cup UNION {{seg.tr[k] : k \in 1..Len(seg.tr)} :
                     seg \in UNION {PossibleSegs(p) : p \in Procs}}

(* the process dies and is started again: the store is all that is kept *)
Crash ==
  /\ ~AllIdle
  /\ \E d \in CrashStores : db' = d
  /\ isRunning' = FALSE
  /\ pc' = [p \in Procs |-> "idle"]
  /\ queue' = [p \in Procs |-> <<>>]
  /\ cur' = [p \in Procs |-> NoTask]
  /\ att' = [p \in Procs |-> 0]
  /\ labs' = [p \in Procs |-> <<>>]
  /\ stats' = [p \in Procs |-> ZeroStats]
  /\ ret' = NoRet
  /\ hist' = [hist EXCEPT !.crashed = hist.tracing]
  /\ UNCHANGED <<clock, maxErrorLogs, provider>>

(* one invocation after another: sync() and retryFailedTasks() do not overlap *)
SyncStart(c) == pc["retry"] = "idle" /\ SyncBegin(c)
RetryStart == ~isRunning /\ RetryBegin

NoOp == [op |-> "none", id |-> "none", existed |-> FALSE, differs |-> FALSE]
(* the module state of the service: isShuttingDown, syncInterval (set or
   null), whether closeDatabase() has run and whether the process has exited *)
NoService == [isShuttingDown |-> FALSE, syncInterval |-> FALSE, closed |-> FALSE,
              exited |-> FALSE]
NoHist == [storeOps |-> 0, lastOp |-> NoOp, classifyCalls |-> [t \in TaskIds |-> 0],
           tracing |-> FALSE, crashed |-> FALSE, trace |-> [t \in TaskIds |-> <<>>],
           fault |-> NoFault, service |-> NoService]

Init ==
  /\ clock = 0
  /\ maxErrorLogs = MaxErrorLogsCfg
  /\ db = EmptyDb
  /\ provider \in InitialProviders
  /\ isRunning = FALSE
  /\ pc = [p \in Procs |-> "idle"]
  /\ queue = [p \in Procs |-> <<>>]
  /\ cur = [p \in Procs |-> NoTask]
  /\ att = [p \in Procs |-> 0]
  /\ labs = [p \in Procs |-> <<>>]
  /\ stats = [p \in Procs |-> ZeroStats]
  /\ ret = NoRet
  /\ hist = NoHist

Next ==
  \/ \E c \in Callers : SyncStart(c)
  \/ \E c \in Callers : SyncListed(c)
  \/ \E c \in Callers : SyncListFails(c)
  \/ \E p \in Procs : ClassifierThrows(p)
  \/ \E p \in Procs : ClassifierReturns(p)
  \/ \E p \in Procs : ProviderUpdates(p)
  \/ \E p \in Procs : ProviderRejects(p)
  \/ \E p \in Procs : UpdateResolved(p)
  \/ \E p \in Procs : UpdateRejected(p)
  \/ RetryStart
  \/ RetryFetched
  \/ \E t \in Edited : ExtLabel(t)
  \/ \E t \in Edited : ExtUnlabel(t)
  \/ \E t \in Edited : ExtComplete(t)
  \/ \E t \in TaskIds : ExtDelete(t)
  \/ Crash

Spec == Init /\ [][Next]_vars

(* one unlabeled task in the inbox *)
InitOneTask ==
  /\ clock = 0
  /\ maxErrorLogs = MaxErrorLogsCfg
  /\ db = EmptyDb
  /\ provider = [t \in TaskIds |->
                   IF t \in Edited
                   THEN [exists |-> TRUE, labels |-> <<>>, isCompleted |-> FALSE]
                   ELSE Gone]
  /\ isRunning = FALSE
  /\ pc = [p \in Procs |-> "idle"]
  /\ queue = [p \in Procs |-> <<>>]
  /\ cur = [p \in Procs |-> NoTask]
  /\ att = [p \in Procs |-> 0]
  /\ labs = [p \in Procs |-> <<>>]
  /\ stats = [p \in Procs |-> ZeroStats]
  /\ ret = NoRet
  /\ hist = NoHist

(* retryFailedTasks() called while a sync() is in flight and the other way
   round: neither checks for the other *)
NextOverlap ==
  \/ \E c \in Callers : SyncBegin(c)
  \/ \E c \in Callers : SyncListed(c)
  \/ \E c \in Callers : SyncListFails(c)
  \/ \E p \in Procs : ClassifierThrows(p)
  \/ \E p \in Procs : ClassifierReturns(p)
  \/ \E p \in Procs : ProviderUpdates(p)
  \/ \E p \in Procs : ProviderRejects(p)
  \/ \E p \in Procs : UpdateResolved(p)
  \/ \E p \in Procs : UpdateRejected(p)
  \/ RetryBegin
  \/ RetryFetched
  \/ \E t \in Edited : ExtLabel(t)
  \/ \E t \in Edited : ExtUnlabel(t)
  \/ \E t \in Edited : ExtComplete(t)
  \/ \E t \in TaskIds : ExtDelete(t)
  \/ Crash

SpecOverlap == InitOneTask /\ [][NextOverlap]_vars

(* a store operation starts to fail for a task, and recovers *)
FaultAppears(op, id) ==
  /\ hist.fault = NoFault
  /\ hist' = [hist EXCEPT !.fault = [op |-> op, id |-> id]]
  /\ ret' = NoRet
  /\ UNCHANGED <<clock, maxErrorLogs, db, provider, isRunning, pc, queue, cur, att,
                 labs, stats>>

FaultClears ==
  /\ hist.fault # NoFault
  /\ hist' = [hist EXCEPT !.fault = NoFault]
  /\ ret' = NoRet
  /\ UNCHANGED <<clock, maxErrorLogs, db, provider, isRunning, pc, queue, cur, att,
                 labs, stats>>

(* two unlabeled tasks in the inbox *)
InitTwoTasks ==
  /\ clock = 0
  /\ maxErrorLogs = MaxErrorLogsCfg
  /\ db = EmptyDb
  /\ provider = [t \in TaskIds |->
                   [exists |-> TRUE, labels |-> <<>>, isCompleted |-> FALSE]]
  /\ isRunning = FALSE
  /\ pc = [p \in Procs |-> "idle"]
  /\ queue = [p \in Procs |-> <<>>]
  /\ cur = [p \in Procs |-> NoTask]
  /\ att = [p \in Procs |-> 0]
  /\ labs = [p \in Procs |-> <<>>]
  /\ stats = [p \in Procs |-> ZeroStats]
  /\ ret = NoRet
  /\ hist = NoHist

(* ticks over two tasks while store operations fail for one of them *)
NextFault ==
  \/ \E c \in Callers : SyncStart(c)
  \/ \E c \in Callers : SyncListed(c)
  \/ \E c \in Callers : SyncListFails(c)
  \/ \E c \in Callers : ClassifierThrows(c)
  \/ \E c \in Callers : ClassifierReturns(c)
  \/ \E c \in Callers : ProviderUpdates(c)
  \/ \E c \in Callers : ProviderRejects(c)
  \/ \E c \in Callers : UpdateResolved(c)
  \/ \E c \in Callers : UpdateRejected(c)
  \/ \E op \in FaultOps, id \in Edited : FaultAppears(op, id)
  \/ FaultClears

SpecFault == InitTwoTasks /\ [][NextFault]_vars

(* ticks and retry passes over two tasks, one after another, while tasks
   are labelled or deleted at Todoist *)
NextRetry ==
  \/ \E c \in Callers : SyncStart(c)
  \/ \E c \in Callers : SyncListed(c)
  \/ \E p \in Procs : ClassifierThrows(p)
  \/ \E p \in Procs : ClassifierReturns(p)
  \/ \E p \in Procs : ProviderUpdates(p)
  \/ \E p \in Procs : ProviderRejects(p)
  \/ \E p \in Procs : UpdateResolved(p)
  \/ \E p \in Procs : UpdateRejected(p)
  \/ RetryStart
  \/ RetryFetched
  \/ \E t \in Edited : ExtLabel(t)
  \/ \E t \in TaskIds : ExtDelete(t)

SpecRetry == InitTwoTasks /\ [][NextRetry]_vars

(* variant: after a sync() that rejected no further cycle calls sync() *)
RunSyncCycleStopsOnError(c) ==
  IF hist.service.isShuttingDown \/ db.errSeq > 0
  THEN UNCHANGED vars
  ELSE SyncBegin(c)

(* runSyncCycle(): nothing when the service is shutting down, else sync(),
   whose rejection is logged and dropped *)
RunSyncCycle(c) ==
  IF hist.service.isShuttingDown
  THEN UNCHANGED vars
  ELSE SyncBegin(c)

(* the interval timer set by startSyncLoop() fires *)
TimerFires ==
  /\ hist.service.syncInterval
  /\ ~hist.service.exited
  /\ \E c \in Callers : RunSyncCycle(c)

(* variant: the store is closed, the loop is left as it is *)
ShutdownClosesOnly ==
  /\ ~hist.service.closed
  /\ hist' = [hist EXCEPT !.service.closed = TRUE]
  /\ ret' = NoRet
  /\ UNCHANGED <<clock, maxErrorLogs, db, provider, isRunning, pc, queue, cur, att,
                 labs, stats>>

(* shutdown(signal), run by the SIGINT/SIGTERM handlers: it has no await, so
   flag, clearInterval, closeDatabase() and process.exit(0) are one step *)
Shutdown ==
  /\ ~hist.service.exited
  /\ IF hist.service.isShuttingDown
     THEN UNCHANGED vars
     ELSE /\ hist' = [hist EXCEPT !.service =
                        [isShuttingDown |-> TRUE, syncInterval |-> FALSE,
                         closed |-> TRUE, exited |-> TRUE]]
          /\ ret' = NoRet
          /\ UNCHANGED <<clock, maxErrorLogs, db, provider, isRunning, pc, queue,
                         cur, att, labs, stats>>

(* main() has returned: the first runSyncCycle() waits for the listing and
   the interval timer is set *)
InitService ==
  /\ clock = 0
  /\ maxErrorLogs = MaxErrorLogsCfg
  /\ db = EmptyDb
  /\ provider = [t \in TaskIds |->
                   [exists |-> TRUE, labels |-> <<>>, isCompleted |-> FALSE]]
  /\ isRunning = TRUE
  /\ pc = [p \in Procs |-> IF p = "s1" THEN "list" ELSE "idle"]
  /\ queue = [p \in Procs |-> <<>>]
  /\ cur = [p \in Procs |-> NoTask]
  /\ att = [p \in Procs |-> 0]
  /\ labs = [p \in Procs |-> <<>>]
  /\ stats = [p \in Procs |-> ZeroStats]
  /\ ret = NoRet
  /\ hist = [NoHist EXCEPT !.service.syncInterval = TRUE]

(* a step of a sync() in flight: none once the process has exited *)
TickStep(c) ==
  /\ ~hist.service.exited
  /\ \/ SyncListed(c)
     \/ SyncListFails(c)
     \/ ClassifierThrows(c)
     \/ ClassifierReturns(c)
     \/ ProviderUpdates(c)
     \/ ProviderRejects(c)
     \/ UpdateResolved(c)
     \/ UpdateRejected(c)

NextService ==
  \/ TimerFires
  \/ Shutdown
  \/ \E c \in Callers : TickStep(c)

SpecService == InitService /\ [][NextService]_vars

(* ticks that run to completion over two tasks that stay listed, uncompleted
   and unlabeled: no listing failure, no crash, no store failure *)
TickStarts == \E c \in Callers : ~isRunning /\ SyncStart(c)

TickProgress ==
  \E c \in Callers :
    \/ SyncListed(c)
    \/ ClassifierThrows(c)
    \/ ClassifierReturns(c)
    \/ ProviderUpdates(c)
    \/ ProviderRejects(c)
    \/ UpdateResolved(c)
    \/ UpdateRejected(c)

NextLive ==
  \/ \E c \in Callers : SyncStart(c)
  \/ TickProgress

(* the timer keeps firing and every awaited call settles *)
SpecLive ==
  InitTwoTasks /\ [][NextLive]_vars /\ WF_vars(TickStarts) /\ WF_vars(TickProgress)

(* one task, with the outcome of every attempt recorded *)
InitTrace ==
  /\ clock = 0
  /\ maxErrorLogs = MaxErrorLogsCfg
  /\ db = EmptyDb
  /\ provider = [t \in TaskIds |->
                   IF t \in Edited
                   THEN [exists |-> TRUE, labels |-> <<>>, isCompleted |-> FALSE]
                   ELSE Gone]
  /\ isRunning = FALSE
  /\ pc = [p \in Procs |-> "idle"]
  /\ queue = [p \in Procs |-> <<>>]
  /\ cur = [p \in Procs |-> NoTask]
  /\ att = [p \in Procs |-> 0]
  /\ labs = [p \in Procs |-> <<>>]
  /\ stats = [p \in Procs |-> ZeroStats]
  /\ ret = NoRet
  /\ hist = [NoHist EXCEPT !.tracing = TRUE]

SpecTrace == InitTrace /\ [][Next]_vars

(* ticks over one task for which the classifier may return several labels,
   in either order *)
OrderedLabelLists == {<<"work", "home">>, <<"home", "work">>}

ClassifierReturnsMany(p) ==
  /\ pc[p] = "classify"
  /\ \E l \in OrderedLabelLists :
       Apply(p, AfterClassifier(p, [throws |-> FALSE, labels |-> l]))

NextLabels ==
  \/ \E c \in Callers : SyncStart(c)
  \/ TickProgress
  \/ \E c \in Callers : ClassifierReturnsMany(c)

SpecLabels == InitOneTask /\ [][NextLabels]_vars

(* ticks over two tasks listed in either order, with the outcome of every
   attempt of each task recorded *)
InitOrder ==
  /\ clock = 0
  /\ maxErrorLogs = MaxErrorLogsCfg
  /\ db = EmptyDb
  /\ provider = [t \in TaskIds |->
                   [exists |-> TRUE, labels |-> <<>>, isCompleted |-> FALSE]]
  /\ isRunning = FALSE
  /\ pc = [p \in Procs |-> "idle"]
  /\ queue = [p \in Procs |-> <<>>]
  /\ cur = [p \in Procs |-> NoTask]
  /\ att = [p \in Procs |-> 0]
  /\ labs = [p \in Procs |-> <<>>]
  /\ stats = [p \in Procs |-> ZeroStats]
  /\ ret = NoRet
  /\ hist = [NoHist EXCEPT !.tracing = TRUE]

SpecOrder == InitOrder /\ [][NextLive]_vars

(* SQL NULL as the result of an aggregate *)
NullSum == -1

(* SUM(CASE WHEN status = st THEN 1 ELSE 0 END) over the rows `ids`: NULL
   over no rows *)
RECURSIVE SumCase(_, _, _)
SumCase(d, ids, st) ==
  IF ids = {} THEN NullSum
  ELSE LET id == CHOOSE x \in ids : TRUE
           rest == SumCase(d, ids \ {id}, st)
           one == IF d.tasks[id].status = st THEN 1 ELSE 0
       IN IF rest = NullSum THEN one ELSE rest + one

(* variant: the aggregate is returned as it is *)
OrZeroKeepsNull(x) == x

(* `x || 0` on a number or null *)
OrZero(x) == IF x = NullSum \/ x = 0 THEN 0 ELSE x

getStats(d) ==
  [total |-> OrZero(Cardinality(DOMAIN d.tasks)),
   classified |-> OrZero(SumCase(d, DOMAIN d.tasks, "classified")),
   failed |-> OrZero(SumCase(d, DOMAIN d.tasks, "failed")),
   pending |-> OrZero(SumCase(d, DOMAIN d.tasks, "pending")),
   skipped |-> OrZero(SumCase(d, DOMAIN d.tasks, "skipped"))]

(* variant: no attempts check *)
taskNeedsClassificationAnyPending(d, taskId) ==
  LET task == getTask(d, taskId) IN
  IF ~task.found THEN TRUE
  ELSE task.rec.status = "pending"

taskNeedsClassification(d, taskId) ==
  LET task == getTask(d, taskId) IN
  IF ~task.found THEN TRUE
  ELSE task.rec.status = "pending" /\ task.rec.attempts < 3

(* ------------------------------------------------------------------ *)
(* The store on its own: any caller, any sequence of operations       *)
(* ------------------------------------------------------------------ *)
StoreCall(op, id, d) ==
  /\ hist.storeOps < MaxStoreOps
  /\ db' = d
  /\ hist' = [hist EXCEPT !.storeOps = @ + 1,
                          !.lastOp = [op |-> op, id |-> id,
                                      existed |-> HasTask(db, id),
                                      differs |-> FALSE]]
  /\ UNCHANGED <<clock, maxErrorLogs, provider, isRunning, pc, queue, cur, att,
                 labs, stats, ret>>

DbUpsertTask(id, content) ==
  /\ hist.storeOps < MaxStoreOps
  /\ db' = upsertTask(db, id, content, clock)
  /\ hist' = [hist EXCEPT !.storeOps = @ + 1,
                          !.lastOp = [op |-> "upsertTask", id |-> id,
                                      existed |-> HasTask(db, id),
                                      differs |-> HasTask(db, id) /\
                                                  db.tasks[id].content # content]]
  /\ UNCHANGED <<clock, maxErrorLogs, provider, isRunning, pc, queue, cur, att,
                 labs, stats, ret>>

DbMarkTaskAttempted(id) ==
  StoreCall("markTaskAttempted", id, markTaskAttempted(db, id, clock))

DbMarkTaskClassified(id, labels) ==
  StoreCall("markTaskClassified", id, markTaskClassified(db, id, labels, clock))

DbMarkTaskFailed(id) ==
  StoreCall("markTaskFailed", id, markTaskFailed(db, id, clock))

DbMarkTaskSkipped(id) ==
  StoreCall("markTaskSkipped", id, markTaskSkipped(db, id, clock))

DbLogError(errorType, taskId) ==
  /\ db.errSeq < MaxLogCalls
  /\ db' = logError(db, errorType, taskId, clock, maxErrorLogs)
  /\ UNCHANGED <<clock, maxErrorLogs, provider, isRunning, pc, queue, cur, att,
                 labs, stats, ret, hist>>

(* a second passes *)
Second ==
  /\ clock < MaxClock
  /\ clock' = clock + 1
  /\ UNCHANGED <<maxErrorLogs, db, provider, isRunning, pc, queue, cur, att, labs,
                 stats, ret, hist>>

(* ticks and retry passes over two tasks, one after another, while time
   passes, so that records are created at different times *)
NextAged ==
  \/ \E c \in Callers : SyncStart(c)
  \/ \E c \in Callers : SyncListed(c)
  \/ \E c \in Callers : SyncListFails(c)
  \/ \E p \in Procs : ClassifierThrows(p)
  \/ \E p \in Procs : ClassifierReturns(p)
  \/ \E p \in Procs : ProviderUpdates(p)
  \/ \E p \in Procs : ProviderRejects(p)
  \/ \E p \in Procs : UpdateResolved(p)
  \/ \E p \in Procs : UpdateRejected(p)
  \/ RetryStart
  \/ RetryFetched
  \/ Second

SpecAged == InitTwoTasks /\ [][NextAged]_vars

InitStore ==
  /\ clock = 0
  /\ maxErrorLogs \in 0..MaxErrorLogsCfg
  /\ db = EmptyDb
  /\ provider = [t \in TaskIds |-> Gone]
  /\ isRunning = FALSE
  /\ pc = [p \in Procs |-> "idle"]
  /\ queue = [p \in Procs |-> <<>>]
  /\ cur = [p \in Procs |-> NoTask]
  /\ att = [p \in Procs |-> 0]
  /\ labs = [p \in Procs |-> <<>>]
  /\ stats = [p \in Procs |-> ZeroStats]
  /\ ret = NoRet
  /\ hist = NoHist

NextStore ==
  \/ \E id \in TaskIds, content \in Contents : DbUpsertTask(id, content)
  \/ \E id \in TaskIds : DbMarkTaskAttempted(id)
  \/ \E id \in TaskIds, l \in ClassifierLabelLists \ {<<>>} : DbMarkTaskClassified(id, l)
  \/ \E id \in TaskIds : DbMarkTaskFailed(id)
  \/ \E id \in TaskIds : DbMarkTaskSkipped(id)
  \/ Second

SpecStore == InitStore /\ [][NextStore]_vars

NextLog ==
  \/ \E ty \in {"SYNC_ERROR"} : DbLogError(ty, NullTask)
  \/ \E ty \in {"CLASSIFICATION_ERROR", "CLASSIFICATION_EMPTY"}, id \in TaskIds :
       DbLogError(ty, id)
  \/ Second

SpecLog == InitStore /\ [][NextLog]_vars

(* ------------------------------------------------------------------ *)
(* Properties                                                         *)
(* ------------------------------------------------------------------ *)
ListedLabelled(t) == provider[t].exists /\ Len(provider[t].labels) > 0
InQueue(p, t) == \E i \in 1..Len(queue[p]) : queue[p][i].id = t
Terminal(st) == st \in {"classified", "failed", "skipped"}

(* C1: when the classifier throws for a task, the task's record is pending
   with attempts 1, 2 or 3; it stays pending if attempts is 1 or 2 and it is
   failed by the end of that step exactly if attempts is 3. *)
C1_FailedExactlyAtThird ==
  [][\A p \in Procs :
       ClassifierThrows(p) =>
         LET id == cur[p].id IN
         /\ HasTask(db, id) /\ HasTask(db', id)
         /\ db.tasks[id].status = "pending"
         /\ db.tasks[id].attempts \in 1..MAX_ATTEMPTS
         /\ db'.tasks[id].attempts = db.tasks[id].attempts
         /\ db'.tasks[id].status =
              IF db.tasks[id].attempts = MAX_ATTEMPTS THEN "failed" ELSE "pending"]_vars

C1_Witness ==
  /\ HasTask(db, "t1")
  /\ db.tasks["t1"].status = "failed"
  /\ db.tasks["t1"].attempts = MAX_ATTEMPTS
  /\ hist.classifyCalls["t1"] = MAX_ATTEMPTS
  /\ db.errSeq = MAX_ATTEMPTS
  /\ \A r \in db.errors : r.errorType = "CLASSIFICATION_ERROR" /\ r.taskId = "t1"
  /\ Cardinality(db.errors) = 2

(* C2: for every task the classifier has been invoked at most as many times
   as the record's attempts counter says, and attempts is at most 3, in every
   state of every run of sync() and retryFailedTasks() calls made one after
   another, crashes and restarts included. *)
C2_AttemptsBounded ==
  \A t \in TaskIds :
    IF HasTask(db, t)
    THEN /\ db.tasks[t].attempts <= MAX_ATTEMPTS
         /\ hist.classifyCalls[t] <= db.tasks[t].attempts
    ELSE hist.classifyCalls[t] = 0

C2_Witness ==
  /\ HasTask(db, "t1")
  /\ db.tasks["t1"].attempts = MAX_ATTEMPTS
  /\ db.tasks["t1"].status = "pending"
  /\ hist.classifyCalls["t1"] = 2
  /\ AllIdle

(* C3: a record that is classified, failed or skipped keeps its status,
   attempts and labels in every step, and no step invokes the classifier for
   its task, whatever the provider lists. *)
C3_TerminalStays ==
  [][\A t \in DOMAIN db.tasks :
       Terminal(db.tasks[t].status) =>
         /\ HasTask(db', t)
         /\ db'.tasks[t].status = db.tasks[t].status
         /\ db'.tasks[t].attempts = db.tasks[t].attempts
         /\ db'.tasks[t].labels = db.tasks[t].labels
         /\ hist'.classifyCalls[t] = hist.classifyCalls[t]]_vars

C3_Witness ==
  /\ ret.who \in Callers /\ ret.kind = "resolved" /\ ret.stats.processed = 0
  /\ provider["t1"] = [exists |-> TRUE, labels |-> <<>>, isCompleted |-> FALSE]
  /\ HasTask(db, "t1")
  /\ db.tasks["t1"].status = "classified"

(* C4: a sync() invoked while another invocation of sync() has not resolved
   returns all-zero statistics and changes nothing else: no store write, no
   provider change, no classifier invocation, and it does not request the
   listing, so that at most one listing request is outstanding. *)
C4_OverlapReturnsZero ==
  [][\A c \in Callers :
       (SyncStart(c) /\ \E o \in Callers \ {c} : pc[o] # "idle") =>
         /\ ret' = [who |-> c, kind |-> "busy", stats |-> ZeroStats]
         /\ UNCHANGED <<db, provider, hist, pc, queue, cur, isRunning>>
         /\ Cardinality({o \in Callers : pc'[o] = "list"}) <= 1]_vars

C4_Witness ==
  /\ ret.kind = "busy"
  /\ ret.stats = ZeroStats
  /\ \E o \in Callers \ {ret.who} : pc[o] = "list"

(* C5: at most one invocation of sync() is past the busy check, and after an
   invocation returned because the flag was set the flag is still set. *)
C5_OneTickAtATime ==
  /\ Cardinality({c \in Callers : pc[c] # "idle"}) <= 1
  /\ (\E c \in Callers : pc[c] # "idle") => isRunning
  /\ ret.kind = "busy" => isRunning /\ \E o \in Callers \ {ret.who} : pc[o] # "idle"

C5_Witness ==
  /\ ret.kind = "busy"
  /\ isRunning
  /\ \E o \in Callers \ {ret.who} : pc[o] = "classify"

(* C6 as stated: when the listing resolves, every uncompleted task it returns
   with labels has a record marked skipped, is not queued for classification,
   and its attempts counter is untouched. *)
C6_AsStated ==
  [][\A c \in Callers :
       SyncListed(c) =>
         \A t \in TaskIds :
           (ListedLabelled(t) /\ ~provider[t].isCompleted) =>
             /\ HasTask(db', t)
             /\ db'.tasks[t].status = "skipped"
             /\ cur'[c].id # t /\ ~InQueue(c, t)'
             /\ hist'.classifyCalls[t] = hist.classifyCalls[t]
             /\ db'.tasks[t].attempts = IF HasTask(db, t) THEN db.tasks[t].attempts ELSE 0]_vars

(* C6: when the listing resolves, a task it returns with labels is not
   queued for classification and no attempt is recorded; if it is uncompleted
   and has no record it gets a record marked skipped with attempts 0; if it
   already has a record the record is left as it is; a completed task
   without a record gets none. *)
C6_LabelledNotClassified ==
  [][\A c \in Callers :
       SyncListed(c) =>
         \A t \in TaskIds :
           ListedLabelled(t) =>
             /\ cur'[c].id # t /\ ~InQueue(c, t)'
             /\ hist'.classifyCalls[t] = hist.classifyCalls[t]
             /\ HasTask(db, t) => HasTask(db', t) /\ db'.tasks[t] = db.tasks[t]
             /\ (~HasTask(db, t) /\ ~provider[t].isCompleted) =>
                  /\ HasTask(db', t)
                  /\ db'.tasks[t].status = "skipped"
                  /\ db'.tasks[t].attempts = 0
             /\ (~HasTask(db, t) /\ provider[t].isCompleted) => ~HasTask(db', t)]_vars

C6_Witness ==
  /\ ret.who \in Callers /\ ret.kind = "resolved" /\ ret.stats.processed = 0
  /\ provider["t1"] = [exists |-> TRUE, labels |-> ExternalLabels, isCompleted |-> FALSE]
  /\ HasTask(db, "t1")
  /\ db.tasks["t1"].status = "pending"
  /\ db.tasks["t1"].attempts = 1
  /\ ListedLabelled("t2")
  /\ HasTask(db, "t2")
  /\ db.tasks["t2"].status = "skipped"
  /\ db.tasks["t2"].attempts = 0

(* C7: whenever processTask issues api.updateTaskLabels for a task, the task
   carries no labels at the provider at that moment. *)
C7_NeverOverwrites ==
  [][\A p \in Procs :
       (pc[p] = "classify" /\ pc'[p] = "update") =>
         Len(provider[cur[p].id].labels) = 0]_vars

(* C8: upsertTask on an id that has a record leaves status, attempts, labels,
   createdAt, lastAttemptAt and classifiedAt as they were and sets content and
   updatedAt; on an id without a record it creates one that is pending with
   attempts 0; no other record and no error row changes. *)
C8_UpsertKeepsProgress ==
  [][\A id \in TaskIds, content \in Contents :
       DbUpsertTask(id, content) =>
         /\ HasTask(db', id)
         /\ db'.tasks[id].content = content
         /\ db'.tasks[id].updatedAt = clock
         /\ IF HasTask(db, id)
            THEN /\ db'.tasks[id].status = db.tasks[id].status
                 /\ db'.tasks[id].attempts = db.tasks[id].attempts
                 /\ db'.tasks[id].labels = db.tasks[id].labels
                 /\ db'.tasks[id].createdAt = db.tasks[id].createdAt
                 /\ db'.tasks[id].lastAttemptAt = db.tasks[id].lastAttemptAt
                 /\ db'.tasks[id].classifiedAt = db.tasks[id].classifiedAt
            ELSE /\ db'.tasks[id].status = "pending"
                 /\ db'.tasks[id].attempts = 0
         /\ \A o \in DOMAIN db.tasks \ {id} : HasTask(db', o) /\ db'.tasks[o] = db.tasks[o]
         /\ DOMAIN db'.tasks = DOMAIN db.tasks \cup {id}
         /\ db'.errors = db.errors]_vars

C8_Witness ==
  /\ hist.lastOp = [op |-> "upsertTask", id |-> "t1", existed |-> TRUE, differs |-> TRUE]
  /\ db.tasks["t1"].status = "classified"
  /\ db.tasks["t1"].attempts = 1
  /\ db.tasks["t1"].updatedAt > db.tasks["t1"].createdAt

(* C9: in every step no record disappears and no attempts counter goes
   down; a counter changes only in a markTaskAttempted step for its task, and
   such a step on an existing record raises it by exactly 1. *)
C9_AttemptsMonotone ==
  [][/\ \A t \in DOMAIN db.tasks :
          /\ HasTask(db', t)
          /\ db'.tasks[t].attempts >= db.tasks[t].attempts
          /\ db'.tasks[t].attempts # db.tasks[t].attempts => DbMarkTaskAttempted(t)
     /\ \A t \in DOMAIN db'.tasks \ DOMAIN db.tasks : db'.tasks[t].attempts = 0
     /\ \A t \in TaskIds :
          (DbMarkTaskAttempted(t) /\ HasTask(db, t)) =>
            db'.tasks[t].attempts = db.tasks[t].attempts + 1]_vars

C9_Witness ==
  /\ hist.lastOp = [op |-> "markTaskAttempted", id |-> "t1", existed |-> TRUE,
                    differs |-> FALSE]
  /\ db.tasks["t1"].attempts = 2
  /\ db.tasks["t1"].status = "failed"

(* C10: after every logError call at most M rows are kept, and the rows kept
   are exactly the min(M, N) most recently inserted of the N rows inserted so
   far; so a call that finds count > M rows after its insert deletes the
   count - M oldest. *)
C10_NewestKept ==
  /\ Cardinality(db.errors) <= maxErrorLogs
  /\ {r.id : r \in db.errors} = {i \in 1..db.errSeq : i > db.errSeq - maxErrorLogs}
  /\ Cardinality(db.errors) = Cardinality({r.id : r \in db.errors})

C10_Witness ==
  /\ maxErrorLogs = 2
  /\ db.errSeq = 4
  /\ {r.id : r \in db.errors} = {3, 4}
  /\ \E r \in db.errors : r.createdAt = 1 /\ r.id = 3

ThrowEv == [res |-> "throw", labels |-> <<>>]
EmptyEv == [res |-> "empty", labels |-> <<>>]
OkEv(l) == [res |-> "ok", labels |-> l]
Repeat(ev, k) == [i \in 1..k |-> ev]
ErrorRows(d, t, ty) == {r \in d.errors : r.taskId = t /\ r.errorType = ty}
NothingPurged == db.errSeq <= maxErrorLogs

(* C11: a task whose attempts ended k times (k < 3) with a classifier throw
   and then once with labels l applied is classified with labels l and
   attempts k + 1, and k CLASSIFICATION_ERROR rows (and no other row) exist
   for it as long as no row was purged; no crash in between. *)
C11_ThrowsThenClassified ==
  \A t \in TaskIds, k \in 0..(MAX_ATTEMPTS - 1), l \in ClassifierLabelLists \ {<<>>} :
    (~hist.crashed /\ hist.trace[t] = Repeat(ThrowEv, k) \o <<OkEv(l)>>) =>
      /\ HasTask(db, t)
      /\ db.tasks[t].status = "classified"
      /\ db.tasks[t].labels = JSONStringify(l)
      /\ db.tasks[t].attempts = k + 1
      /\ NothingPurged =>
           /\ Cardinality(ErrorRows(db, t, "CLASSIFICATION_ERROR")) = k
           /\ ErrorRows(db, t, "CLASSIFICATION_EMPTY") = {}

C11_Witness ==
  /\ ~hist.crashed
  /\ hist.trace["t1"] = <<ThrowEv, ThrowEv, OkEv(<<"work">>)>>
  /\ db.tasks["t1"].attempts = MAX_ATTEMPTS
  /\ db.tasks["t1"].status = "classified"
  /\ Cardinality(ErrorRows(db, "t1", "CLASSIFICATION_ERROR")) = 2

(* C12: while the attempts of a task ended once or twice, each with an empty
   classifier result, the record is not failed and no error row exists for
   the task; when three attempts ended so, the record is failed with attempts
   3 and, as long as no row was purged, exactly one CLASSIFICATION_EMPTY row
   and no other row exists for the task; no crash in between. *)
C12_EmptyThrice ==
  \A t \in TaskIds, k \in 1..MAX_ATTEMPTS :
    (~hist.crashed /\ hist.trace[t] = Repeat(EmptyEv, k)) =>
      /\ HasTask(db, t)
      /\ k < MAX_ATTEMPTS =>
           /\ db.tasks[t].status \in {"pending", "skipped"}
           /\ db.tasks[t].attempts \in {k, k + 1}
           /\ {r \in db.errors : r.taskId = t} = {}
      /\ k = MAX_ATTEMPTS =>
           /\ db.tasks[t].status = "failed"
           /\ db.tasks[t].attempts = MAX_ATTEMPTS
           /\ NothingPurged =>
                /\ Cardinality(ErrorRows(db, t, "CLASSIFICATION_EMPTY")) = 1
                /\ ErrorRows(db, t, "CLASSIFICATION_ERROR") = {}

C12_Witness ==
  /\ ~hist.crashed
  /\ hist.trace["t1"] = <<EmptyEv, EmptyEv, EmptyEv>>
  /\ db.tasks["t1"].status = "failed"
  /\ db.errSeq = 1
  /\ \E r \in db.errors : r.taskId = "t1" /\ r.errorType = "CLASSIFICATION_EMPTY"

(* C13 as stated: in every state, also when a retry pass and a tick overlap,
   a failed record has attempts equal to 3. *)
C13_FailedAtThree ==
  \A t \in DOMAIN db.tasks :
    db.tasks[t].status = "failed" => db.tasks[t].attempts = MAX_ATTEMPTS

(* C14 as stated: in every state, also when a retry pass and a tick overlap,
   a record whose labels are non-null is classified. *)
C14_LabelsOnlyClassified ==
  \A t \in DOMAIN db.tasks :
    db.tasks[t].labels # NullLabels => db.tasks[t].status = "classified"

(* C15: the step in which the listing fails rejects sync() towards its
   caller, adds exactly one row, SYNC_ERROR with a null task id, to the error
   log, invokes the classifier for no task, leaves every task record and
   lastSyncAt as they were, and clears the busy flag. *)
C15_ListingFailure ==
  [][\A c \in Callers :
       SyncListFails(c) =>
         /\ ret' = [who |-> c, kind |-> "rejected", stats |-> ZeroStats]
         /\ db'.tasks = db.tasks
         /\ db'.lastSyncAt = db.lastSyncAt
         /\ db'.errSeq = db.errSeq + 1
         /\ [id |-> db'.errSeq, taskId |-> NullTask, errorType |-> "SYNC_ERROR",
             createdAt |-> clock] \in db'.errors
         /\ db'.errors \ db.errors =
              {[id |-> db'.errSeq, taskId |-> NullTask, errorType |-> "SYNC_ERROR",
                createdAt |-> clock]}
         /\ hist'.classifyCalls = hist.classifyCalls
         /\ pc'[c] = "idle" /\ ~isRunning']_vars

C15_Witness ==
  /\ ret.who \in Callers /\ ret.kind = "rejected"
  /\ db.lastSyncAt = NullTime
  /\ HasTask(db, "t1") /\ db.tasks["t1"].attempts = 1
  /\ \E r \in db.errors : r.id = db.errSeq /\ r.errorType = "SYNC_ERROR" /\ r.taskId = NullTask

UpdFailEv(l) == [res |-> "updfail", labels |-> l]

(* C16: the step in which the label update is found to have failed finds the
   record pending with attempts 1, 2 or 3 and no labels, logs exactly one
   CLASSIFICATION_ERROR row for the task, leaves labels and classifiedAt
   null, and leaves the record pending if attempts is 1 or 2 and failed if
   attempts is 3. *)
C16_UpdateFailure ==
  [][\A p \in Procs :
       UpdateRejected(p) =>
         LET id == cur[p].id IN
         /\ HasTask(db, id) /\ HasTask(db', id)
         /\ db.tasks[id].status = "pending"
         /\ db.tasks[id].attempts \in 1..MAX_ATTEMPTS
         /\ db'.tasks[id].attempts = db.tasks[id].attempts
         /\ db'.tasks[id].labels = NullLabels
         /\ db'.tasks[id].classifiedAt = NullTime
         /\ db'.tasks[id].status =
              IF db.tasks[id].attempts = MAX_ATTEMPTS THEN "failed" ELSE "pending"
         /\ db'.errSeq = db.errSeq + 1
         /\ db'.errors \ db.errors =
              {[id |-> db'.errSeq, taskId |-> id, errorType |-> "CLASSIFICATION_ERROR",
                createdAt |-> clock]}]_vars

C16_Witness ==
  /\ ~hist.crashed
  /\ hist.trace["t1"] = <<UpdFailEv(<<"work">>), UpdFailEv(<<"work">>), UpdFailEv(<<"work">>)>>
  /\ db.tasks["t1"].status = "failed"
  /\ db.tasks["t1"].labels = NullLabels
  /\ \A r \in db.errors : r.errorType = "CLASSIFICATION_ERROR" /\ r.taskId = "t1"

(* a step of the invocation p in which a store operation is called that
   throws: in the catch block, after the update, or at the start of the next
   task of the loop *)
MovesOn(p) ==
  \/ ClassifierThrows(p)
  \/ ClassifierReturns(p) /\ pc'[p] # "update"
  \/ UpdateResolved(p)
  \/ UpdateRejected(p)

StoreThrows(p) ==
  \/ /\ pc[p] = "classify" /\ Faulty("logError", cur[p].id)
     /\ ClassifierThrows(p)
  \/ /\ pc[p] = "updated" /\ Faulty("markTaskClassified", cur[p].id)
     /\ UpdateResolved(p)
  \/ /\ pc[p] \in {"classify", "updated", "updfail"} /\ queue[p] # <<>>
     /\ \/ Faulty("upsertTask", Head(queue[p]).id)
        \/ Faulty("markTaskAttempted", Head(queue[p]).id)
     /\ MovesOn(p)

(* C17 as stated: a step of sync() in which a store operation throws while a
   task is processed rejects sync() towards its caller. *)
C17_StoreFailurePropagates ==
  [][\A c \in Callers :
       StoreThrows(c) => ret'.who = c /\ ret'.kind = "rejected"]_vars

StatsAfter(c) == IF ret'.who = c THEN ret'.stats ELSE stats'[c]

(* C18: sync() rejects only in the step in which the listing fails; a step
   in which the classifier throws, the label update is found failed or a
   store operation throws for a task counts a task as failed, keeps every
   processed task counted once as classified or failed, leaves no task of the
   tick's list unprocessed, and either goes on with the next task or resolves
   with the statistics. *)
C18_TaskFailureContained ==
  [][\A c \in Callers :
       /\ (ret'.who = c /\ ret'.kind = "rejected") => SyncListFails(c)
       /\ (ClassifierThrows(c) \/ UpdateRejected(c) \/ StoreThrows(c)) =>
            /\ StatsAfter(c).failed >= stats[c].failed + 1
            /\ StatsAfter(c).processed + Len(queue'[c]) =
                 stats[c].processed + Len(queue[c])
            /\ StatsAfter(c).processed =
                 StatsAfter(c).classified + StatsAfter(c).failed
                   + (IF pc'[c] = "idle" THEN 0 ELSE 1)
            /\ pc'[c] \in {"idle", "classify"}
            /\ pc'[c] = "idle" =>
                 /\ ret' = [who |-> c, kind |-> "resolved", stats |-> StatsAfter(c)]
                 /\ db'.lastSyncAt = clock]_vars

C18_Witness ==
  /\ ret.who \in Callers /\ ret.kind = "resolved"
  /\ ret.stats = [processed |-> 2, classified |-> 1, failed |-> 1, skipped |-> 0]
  /\ hist.fault = [op |-> "upsertTask", id |-> "t1"]
  /\ ~HasTask(db, "t1")
  /\ HasTask(db, "t2") /\ db.tasks["t2"].status = "classified"

IsClassified(d, t) == HasTask(d, t) /\ d.tasks[t].status = "classified"

(* the records a step turns into classified ones *)
NewlyClassified == {t \in TaskIds : IsClassified(db', t) /\ ~IsClassified(db, t)}

(* C19: when api.getTask resolves in retryFailedTasks(), a record whose task
   is gone or carries labels is marked skipped with its attempts unchanged
   and no classifier call; any other record is either skipped in the same
   way (the provider returned no task) or enters processTask exactly as in
   sync(): upserted, attempts raised by one, classifier invoked. The number
   the pass returns grows by one exactly in the steps that turn a record
   into a classified one. *)
C19_RetryHandlesEachRecord ==
  [][LET id == cur["retry"].id
         Skipped == /\ db'.tasks[id].status = "skipped"
                    /\ db'.tasks[id].attempts = db.tasks[id].attempts
                    /\ hist'.classifyCalls = hist.classifyCalls
                    /\ pc'["retry"] \in {"fetch", "idle"}
         task == [id |-> id, content |-> ContentOf(id),
                  labels |-> provider[id].labels,
                  isCompleted |-> provider[id].isCompleted]
         Processed == /\ db' = DbAfter(ProcessTaskStart("s1", <<>>, task,
                                                        ZeroStats, <<>>).tr)
                      /\ db'.tasks[id].attempts = db.tasks[id].attempts + 1
                      /\ db'.tasks[id].status = "pending"
                      /\ hist'.classifyCalls =
                           [hist.classifyCalls EXCEPT ![id] = @ + 1]
                      /\ pc'["retry"] = "classify" /\ cur'["retry"].id = id
     IN
     /\ RetryFetched =>
          IF ~provider[id].exists \/ Len(provider[id].labels) > 0
          THEN Skipped
          ELSE Skipped \/ Processed
     /\ (pc["retry"] # "idle" \/ pc'["retry"] # "idle") =>
          /\ StatsAfter("retry").classified =
               stats["retry"].classified + Cardinality(NewlyClassified)
          /\ NewlyClassified # {} => UpdateResolved("retry")
          /\ pc'["retry"] = "idle" =>
               ret' = [who |-> "retry", kind |-> "resolved",
                       stats |-> StatsAfter("retry")]]_vars

C19_Witness ==
  /\ ret.who = "retry" /\ ret.kind = "resolved" /\ ret.stats.classified = 1
  /\ IsClassified(db, "t1") /\ db.tasks["t1"].attempts = 2
  /\ HasTask(db, "t2") /\ db.tasks["t2"].status = "skipped"
  /\ db.tasks["t2"].attempts = 1
  /\ hist.classifyCalls = [t \in TaskIds |-> IF t = "t1" THEN 2 ELSE 1]

AttemptsOf(d, t) == IF HasTask(d, t) THEN d.tasks[t].attempts ELSE 0

(* C20: the classifier has never been invoked for a task more often than
   the task's attempts were incremented; a step that invokes the classifier
   for a task has incremented the task's attempts by exactly one just before,
   whichever of sync() and retryFailedTasks() processes it, and holds the
   count read before the increment; attempts never change by another amount,
   and an increment without the classifier call that follows it happens only
   when the process dies between the two. *)
C20_AttemptedOncePerCall ==
  /\ [](\A t \in TaskIds : hist.classifyCalls[t] <= AttemptsOf(db, t))
  /\ [][\A t \in TaskIds :
          LET a == AttemptsOf(db, t)
              calls == hist.classifyCalls[t]
          IN
          /\ hist'.classifyCalls[t] # calls =>
               /\ hist'.classifyCalls[t] = calls + 1
               /\ AttemptsOf(db', t) = a + 1
               /\ \E p \in Procs :
                    /\ pc'[p] = "classify" /\ cur'[p].id = t /\ att'[p] = a
                    /\ (pc[p] = "fetch" /\ p = "retry") \/ p \in Callers
          /\ AttemptsOf(db', t) # a =>
               /\ AttemptsOf(db', t) = a + 1
               /\ hist'.classifyCalls[t] = calls + 1 \/ Crash]_vars

C20_Witness ==
  /\ pc["retry"] = "classify" /\ cur["retry"].id = "t1"
  /\ \E c \in Callers : pc[c] = "classify" /\ cur[c].id = "t1"
  /\ hist.classifyCalls["t1"] = 3
  /\ AttemptsOf(db, "t1") = 3

InFlight == \E c \in Callers : pc[c] # "idle"

(* C21 as stated: whenever closeDatabase() has been executed, no sync()
   invocation is in flight. *)
C21_ClosedAfterTick == hist.service.closed => ~InFlight

(* C22: once shutdown has begun the interval timer is cleared, and no step
   takes a sync() invocation from idle to its listing. *)
C22_NoTickAfterShutdown ==
  /\ []((hist.service.isShuttingDown \/ hist.service.closed) =>
          ~hist.service.syncInterval)
  /\ [][(hist.service.isShuttingDown \/ hist.service.closed) =>
          \A c \in Callers : ~(pc[c] = "idle" /\ pc'[c] = "list")]_vars

C22_Witness ==
  /\ hist.service.isShuttingDown /\ hist.service.exited
  /\ ~hist.service.syncInterval
  /\ AllIdle /\ ~isRunning
  /\ db.lastSyncAt # NullTime

(* C23: the step in which a sync() invocation resolves or rejects leaves
   the busy flag cleared; the flag is clear whenever no sync() is in flight;
   and a sync() called in the state in which a tick has just rejected with
   the listing failure sets the flag and goes to its listing instead of
   returning as already in progress. *)
C23_FlagReleased ==
  /\ [](~InFlight => ~isRunning)
  /\ [][/\ (ret'.who \in Callers /\ ret'.kind \in {"resolved", "rejected"}) =>
            ~isRunning'
        /\ \A c \in Callers :
             (ret.kind = "rejected" /\ SyncBegin(c)) =>
               pc'[c] = "list" /\ isRunning' /\ ret'.kind # "busy"]_vars

C23_Witness ==
  /\ \E c \in Callers : pc[c] = "list"
  /\ isRunning
  /\ \E e \in db.errors : e.errorType = "SYNC_ERROR" /\ e.taskId = NullTask
  /\ db.lastSyncAt = NullTime /\ db.tasks = <<>>

BeingProcessed(t) == \E c \in Callers : pc[c] # "idle" /\ cur[c].id = t

(* C24: every task that stays listed, uncompleted and unlabeled gets a
   record that is classified or failed from some point on; a record that is
   still pending after its third attempt exists only while that attempt is
   being processed; and a tick that lists a pending record with fewer than
   three attempts processes it again. *)
C24_EventuallyTerminal ==
  /\ \A t \in TaskIds :
       <>[](HasTask(db, t) /\ db.tasks[t].status \in {"classified", "failed"})
  /\ [](\A t \in TaskIds :
          (HasTask(db, t) /\ db.tasks[t].status = "pending"
             /\ db.tasks[t].attempts >= MAX_ATTEMPTS) => BeingProcessed(t))
  /\ [][\A c \in Callers : \A t \in TaskIds :
          (SyncListed(c) /\ HasTask(db, t) /\ db.tasks[t].status = "pending"
             /\ db.tasks[t].attempts < MAX_ATTEMPTS) =>
            (cur'[c].id = t \/ InQueue(c, t)')]_vars

C24_Witness ==
  /\ ~InFlight
  /\ HasTask(db, "t1") /\ db.tasks["t1"].status = "failed"
  /\ db.tasks["t1"].attempts = 3
  /\ HasTask(db, "t2") /\ db.tasks["t2"].status = "classified"
  /\ db.tasks["t2"].attempts = 3
  /\ hist.classifyCalls = [t \in TaskIds |-> 3]

(* C25 as stated: a retry pass turns a record into a skipped one only if the
   task does not exist at the provider or carries labels there. *)
C25_SkippedOnlyGoneOrLabelled ==
  [][\A t \in TaskIds :
       (/\ RetryFetched
        /\ cur["retry"].id = t
        /\ db.tasks[t].status # "skipped"
        /\ db'.tasks[t].status = "skipped") =>
         (~provider[t].exists \/ Len(provider[t].labels) > 0)]_vars

(* C26: the step in which sync() filters its listing leaves the record of
   every listed uncompleted task that carries labels and has a record
   exactly as it was, whatever its status; and when every listed task is such
   a task the step writes no record and no error row at all. *)
C26_TrackedLabelledUntouched ==
  [][\A c \in Callers :
       SyncListed(c) =>
         /\ \A t \in TaskIds :
              (ListedLabelled(t) /\ ~provider[t].isCompleted /\ HasTask(db, t)) =>
                /\ HasTask(db', t)
                /\ db'.tasks[t].status = db.tasks[t].status
                /\ db'.tasks[t].attempts = db.tasks[t].attempts
                /\ db'.tasks[t].labels = db.tasks[t].labels
                /\ db'.tasks[t] = db.tasks[t]
         /\ (\A t \in TaskIds :
               provider[t].exists =>
                 (ListedLabelled(t) /\ ~provider[t].isCompleted /\ HasTask(db, t))) =>
              (db'.tasks = db.tasks /\ db'.errors = db.errors)]_vars

C26_Witness ==
  /\ ret.who \in Callers /\ ret.kind = "resolved" /\ ret.stats.processed = 0
  /\ provider["t1"] = [exists |-> TRUE, labels |-> <<"work">>, isCompleted |-> FALSE]
  /\ HasTask(db, "t1")
  /\ db.tasks["t1"].status = "classified"
  /\ db.tasks["t1"].labels = JSONStringify(<<"work">>)
  /\ db.tasks["t1"].attempts = 2

(* the records a retry pass still has to handle, the current one first *)
RetryList ==
  IF pc["retry"] = "idle" THEN <<>>
  ELSE <<cur["retry"].id>> \o [i \in 1..Len(queue["retry"]) |-> queue["retry"][i].id]

(* C27: the list a retry pass starts with holds exactly the records that are
   pending with attempts < 3, each once, in non-decreasing order of creation
   time; the pass takes the records one after another from the head of that
   list, so that no record still to come was created before the one being
   handled. *)
C27_OldestFirst ==
  /\ [](\A i, j \in 1..Len(RetryList) :
          i < j => db.tasks[RetryList[i]].createdAt <= db.tasks[RetryList[j]].createdAt)
  /\ [][/\ RetryStart =>
            /\ {RetryList'[i] : i \in 1..Len(RetryList')} =
                 {t \in TaskIds : /\ HasTask(db, t)
                                  /\ db.tasks[t].status = "pending"
                                  /\ db.tasks[t].attempts < 3}
            /\ \A i, j \in 1..Len(RetryList') : i # j => RetryList'[i] # RetryList'[j]
        /\ (pc["retry"] # "idle" /\ RetryList' # RetryList) =>
            RetryList' = Tail(RetryList)]_vars

C27_Witness ==
  /\ pc["retry"] = "fetch"
  /\ RetryList = <<"t2", "t1">>
  /\ db.tasks["t2"].createdAt = 0
  /\ db.tasks["t1"].createdAt = 1

(* the tasks a tick still has to process, the current one first *)
TickList(c) ==
  IF pc[c] \in {"idle", "list"} THEN <<>>
  ELSE <<cur[c].id>> \o [i \in 1..Len(queue[c]) |-> queue[c][i].id]

Eligible(t) ==
  /\ provider[t].exists /\ ~provider[t].isCompleted /\ Len(provider[t].labels) = 0
  /\ RecordAllows(db, t)

RECURSIVE EligibleIn(_)
EligibleIn(order) ==
  IF order = <<>> THEN <<>>
  ELSE IF Eligible(Head(order))
       THEN <<Head(order)>> \o EligibleIn(Tail(order))
       ELSE EligibleIn(Tail(order))

(* the processing of the current task of c ends in this step *)
Finishes(c) ==
  \/ ClassifierThrows(c)
  \/ ClassifierReturns(c) /\ pc'[c] # "update"
  \/ UpdateResolved(c)
  \/ UpdateRejected(c)

(* C28: the tasks a tick sets out to process are the eligible tasks of the
   listing in the listing's order; the tick turns to another task only in a
   step that ends the processing of the current one (the outcome is written,
   or counted as a failure), and the task it turns to is the next of the
   list; at no time does a tick hold more than the one current task, which
   already carries its attempt and is not in the list a second time. *)
C28_OneAtATimeInOrder ==
  /\ [](\A c \in Callers :
          /\ \A i, j \in 1..Len(TickList(c)) : i # j => TickList(c)[i] # TickList(c)[j]
          /\ pc[c] \in {"classify", "update", "updated", "updfail"} =>
               /\ HasTask(db, cur[c].id)
               /\ db.tasks[cur[c].id].attempts = att[c] + 1
               /\ \A i \in 2..Len(TickList(c)) :
                    HasTask(db, TickList(c)[i]) =>
                      db.tasks[TickList(c)[i]].status = "pending")
  /\ [][\A c \in Callers :
          /\ \A order \in ListingOrders :
               (pc[c] = "list" /\
                Apply(c, SyncAfterListing(c, getInboxTasks(provider, order)))) =>
                 TickList(c)' = EligibleIn(order)
          /\ (pc[c] \notin {"idle", "list"} /\ TickList(c)' # TickList(c)) =>
               /\ Finishes(c)
               /\ TickList(c)' = Tail(TickList(c))
               /\ db'.tasks[cur[c].id].status \in {"classified", "failed"}
                    \/ StatsAfter(c).failed = stats[c].failed + 1]_vars

C28_Witness ==
  /\ pc["s1"] = "classify" /\ cur["s1"].id = "t1" /\ queue["s1"] = <<>>
  /\ stats["s1"].processed = 2 /\ stats["s1"].classified = 1
  /\ db.tasks["t2"].status = "classified"
  /\ db.tasks["t1"].attempts = 1 /\ db.tasks["t2"].attempts = 1

(* the sync() invocation of c resolves in this step *)
Resolves(c) == pc[c] # "idle" /\ ret'.who = c /\ ret'.kind = "resolved"

(* C29: lastSyncAt changes only in the step in which a sync() invocation
   resolves; that step sets it to the current time, is the step that ends
   the processing of the tick's last task (or finds nothing to process), and
   does so whatever the number of failed tasks; a sync() that returns as
   already in progress or rejects after a listing failure leaves lastSyncAt
   as it was, and so does every step of a retry pass. *)
C29_LastSyncAtOncePerTick ==
  [][/\ db'.lastSyncAt # db.lastSyncAt =>
          \E c \in Callers : Resolves(c)
     /\ \A c \in Callers :
          /\ Resolves(c) =>
               /\ db'.lastSyncAt = clock
               /\ pc'[c] = "idle"
               /\ Len(TickList(c)) <= 1
               /\ SyncListed(c) \/ Finishes(c)
          /\ (ret'.who = c /\ ret'.kind \in {"busy", "rejected"}) =>
               db'.lastSyncAt = db.lastSyncAt
          /\ (pc[c] # "idle" /\ pc'[c] # "idle") =>
               db'.lastSyncAt = db.lastSyncAt]_vars

C29_Witness ==
  /\ ret.who \in Callers /\ ret.kind = "resolved"
  /\ ret.stats = [processed |-> 2, classified |-> 0, failed |-> 2, skipped |-> 0]
  /\ clock = 1 /\ db.lastSyncAt = 1
  /\ \E e \in db.errors : e.errorType = "SYNC_ERROR" /\ e.createdAt = 0

(* C30: the statistics a sync() resolves with satisfy processed =
   classified + failed + skipped with skipped = 0; processed plus the number
   of tasks still to come equals, from the filter step to the end of the
   tick, the number of listed tasks that passed the filter; a step that ends
   the processing of a task adds one to classified if the record became
   classified and one to failed otherwise, also when the record stays
   pending for a retry. *)
C30_StatsAddUp ==
  [][\A c \in Callers :
       /\ Resolves(c) =>
            /\ ret'.stats.processed =
                 ret'.stats.classified + ret'.stats.failed + ret'.stats.skipped
            /\ ret'.stats.skipped = 0
            /\ queue[c] = <<>>
       /\ \A order \in ListingOrders :
            (pc[c] = "list" /\
             Apply(c, SyncAfterListing(c, getInboxTasks(provider, order)))) =>
              StatsAfter(c).processed + Len(queue'[c]) = Len(EligibleIn(order))
       /\ (pc[c] \notin {"idle", "list"} /\ (pc'[c] # "idle" \/ Resolves(c))) =>
            /\ StatsAfter(c).processed + Len(queue'[c]) =
                 stats[c].processed + Len(queue[c])
            /\ StatsAfter(c).skipped = 0
       /\ Finishes(c) =>
            /\ StatsAfter(c).classified = stats[c].classified +
                 (IF db'.tasks[cur[c].id].status = "classified" THEN 1 ELSE 0)
            /\ StatsAfter(c).failed = stats[c].failed +
                 (IF db'.tasks[cur[c].id].status = "classified" THEN 0 ELSE 1)]_vars

C30_Witness ==
  /\ ret.who \in Callers /\ ret.kind = "resolved"
  /\ ret.stats = [processed |-> 1, classified |-> 0, failed |-> 1, skipped |-> 0]
  /\ ListedLabelled("t1") /\ ~provider["t1"].isCompleted
  /\ HasTask(db, "t1") /\ db.tasks["t1"].status = "skipped"
  /\ db.tasks["t1"].attempts = 0
  /\ HasTask(db, "t2") /\ db.tasks["t2"].status = "pending"
  /\ db.tasks["t2"].attempts = 1

(* C31: the step in which sync() filters its listing neither creates nor
   changes the record of a task listed as completed, with or without labels
   and with or without a record, does not put it among the tasks to process
   and does not invoke the classifier for it. *)
C31_CompletedNotProcessed ==
  [][\A c \in Callers : \A t \in TaskIds :
       (SyncListed(c) /\ provider[t].exists /\ provider[t].isCompleted) =>
         /\ HasTask(db', t) = HasTask(db, t)
         /\ HasTask(db, t) => db'.tasks[t] = db.tasks[t]
         /\ \A i \in 1..Len(TickList(c)') : TickList(c)'[i] # t
         /\ hist'.classifyCalls[t] = hist.classifyCalls[t]]_vars

C31_Witness ==
  /\ ret.who \in Callers /\ ret.kind = "resolved" /\ ret.stats.processed = 0
  /\ provider["t1"] = [exists |-> TRUE, labels |-> <<>>, isCompleted |-> TRUE]
  /\ ~HasTask(db, "t1")
  /\ db.lastSyncAt # NullTime
  /\ hist.classifyCalls["t1"] = 0

(* C32 as stated: as long as no error row has been purged, every record that
   is failed has an error row logged for its task. *)
C32_ErrorLoggedBeforeFailed ==
  \A t \in TaskIds :
    (HasTask(db, t) /\ db.tasks[t].status = "failed" /\ NothingPurged) =>
      \E r \in db.errors :
        r.taskId = t /\ r.errorType \in {"CLASSIFICATION_EMPTY", "CLASSIFICATION_ERROR"}

(* status, attempts and labels of a record, as the outcomes of the task's
   own attempts determine them *)
RecordAfter(trace) ==
  LET n == Len(trace) IN
  IF trace[n].res = "ok"
  THEN [status |-> "classified", attempts |-> n, labels |-> JSONStringify(trace[n].labels)]
  ELSE IF n >= MAX_ATTEMPTS
  THEN [status |-> "failed", attempts |-> n, labels |-> NullLabels]
  ELSE [status |-> "pending", attempts |-> n, labels |-> NullLabels]

(* C33: whenever no tick is in flight, status, attempts and labels of every
   record are determined by the outcomes of that task's own attempts alone,
   whatever the order of the listings and whatever happened to the other
   task; a task without a finished attempt has no record. *)
C33_OrderIndependent ==
  ~InFlight =>
    \A t \in TaskIds :
      IF hist.trace[t] = <<>> THEN ~HasTask(db, t)
      ELSE /\ HasTask(db, t)
           /\ [status |-> db.tasks[t].status, attempts |-> db.tasks[t].attempts,
               labels |-> db.tasks[t].labels] = RecordAfter(hist.trace[t])

C33_Witness ==
  /\ ~InFlight
  /\ hist.trace["t1"] = <<ThrowEv, EmptyEv, OkEv(<<"work">>)>>
  /\ hist.trace["t2"] = <<UpdFailEv(<<"work">>), ThrowEv, ThrowEv>>
  /\ db.tasks["t1"].status = "classified"
  /\ db.tasks["t2"].status = "failed"
  /\ db.tasks["t2"].createdAt = 0

InProcessTask(p, t) ==
  pc[p] \in {"classify", "update", "updated", "updfail"} /\ cur[p].id = t

(* C34 as stated: while a retry pass and a tick overlap, no task is inside
   processTask of both at once and no attempts counter exceeds 3. *)
C34_NoSharedTask ==
  \A t \in TaskIds :
    /\ ~(InProcessTask("retry", t) /\ \E c \in Callers : InProcessTask(c, t))
    /\ HasTask(db, t) => db.tasks[t].attempts <= 3

(* C35 as stated: under any interleaving of a tick and a retry pass, no step
   takes a record that is classified, failed or skipped to another status,
   and no step classifies a record that is classified already. *)
C35_TerminalNeverRewritten ==
  [][\A t \in TaskIds :
       (HasTask(db, t) /\ Terminal(db.tasks[t].status)) =>
         /\ db'.tasks[t].status = db.tasks[t].status
         /\ \A p \in Procs :
              (UpdateResolved(p) /\ cur[p].id = t) =>
                db.tasks[t].status # "classified"]_vars

(* C36 as stated: whenever no tick and no retry pass is in flight, no record
   is pending with attempts of 3 or more. *)
C36_NoStrandedPending ==
  AllIdle =>
    \A t \in TaskIds :
      HasTask(db, t) =>
        ~(db.tasks[t].status = "pending" /\ db.tasks[t].attempts >= MAX_ATTEMPTS)

(* C37: a record becomes classified only in the step that follows the
   successful completion of the label update for that task; the labels the
   step stores are the encoding of the list the invocation holds, which is
   the list the classifier returned, unchanged since, and the list the
   provider was sent and now carries, in the same order. *)
C37_ClassifiedAfterUpdate ==
  [][/\ \A t \in TaskIds :
          (HasTask(db', t) /\ db'.tasks[t].status = "classified"
             /\ ~IsClassified(db, t)) =>
            \E p \in Procs :
              /\ UpdateResolved(p) /\ cur[p].id = t /\ pc[p] = "updated"
              /\ db'.tasks[t].labels = JSONStringify(labs[p])
              /\ provider[t].labels = labs[p]
              /\ Len(labs[p]) > 0
     /\ \A p \in Procs :
          /\ \A l \in ClassifierLabelLists \cup OrderedLabelLists :
               (pc[p] = "classify" /\ Len(l) > 0 /\
                Apply(p, AfterClassifier(p, [throws |-> FALSE, labels |-> l]))) =>
                 (labs'[p] = l /\ pc'[p] = "update")
          /\ (pc[p] = "update" /\ pc'[p] = "updated") =>
               (provider'[cur[p].id].labels = labs[p] /\ labs'[p] = labs[p])]_vars

C37_Witness ==
  /\ IsClassified(db, "t1")
  /\ db.tasks["t1"].labels = <<"[", "home", ",", "work", "]">>
  /\ provider["t1"].labels = <<"home", "work">>
  /\ db.tasks["t1"].attempts = 2

(* C38: as long as shutdown has not begun the interval timer stays set and
   the process alive, and whenever no tick is running a firing of the timer
   starts one, also in the state a rejected sync() leaves behind; the
   step in which sync() rejects changes nothing of the service's state; and
   every firing of the timer before shutdown calls sync(), which starts a
   tick or returns as already in progress. *)
C38_PollingSurvivesErrors ==
  /\ [](~hist.service.isShuttingDown =>
          /\ hist.service.syncInterval /\ ~hist.service.exited
          /\ ~isRunning => ENABLED <<TimerFires>>_vars)
  /\ [][/\ \A c \in Callers :
            SyncListFails(c) => hist'.service = hist.service
        /\ (TimerFires /\ ~hist.service.isShuttingDown) =>
            \E c \in Callers :
              /\ pc[c] = "idle"
              /\ IF isRunning
                 THEN ret' = [who |-> c, kind |-> "busy", stats |-> ZeroStats]
                 ELSE pc'[c] = "list" /\ isRunning']_vars

C38_Witness ==
  /\ \E c \in Callers : pc[c] = "list"
  /\ hist.service.syncInterval /\ ~hist.service.isShuttingDown
  /\ db.errSeq = 2
  /\ \A e \in db.errors : e.errorType = "SYNC_ERROR"

WithStatus(d, st) == {t \in DOMAIN d.tasks : d.tasks[t].status = st}

(* C39: in every store state getStats() returns, for each status, the number
   of records with that status and, as total, the number of records, which
   is the sum of the four; on an empty table every field is 0. *)
C39_StatsCount ==
  LET s == getStats(db) IN
  /\ s.classified = Cardinality(WithStatus(db, "classified"))
  /\ s.failed = Cardinality(WithStatus(db, "failed"))
  /\ s.pending = Cardinality(WithStatus(db, "pending"))
  /\ s.skipped = Cardinality(WithStatus(db, "skipped"))
  /\ s.total = Cardinality(DOMAIN db.tasks)
  /\ s.total = s.classified + s.failed + s.pending + s.skipped
  /\ DOMAIN db.tasks = {} =>
       s = [total |-> 0, classified |-> 0, failed |-> 0, pending |-> 0, skipped |-> 0]

C39_Witness ==
  /\ getStats(db) = [total |-> 2, classified |-> 1, failed |-> 0, pending |-> 0,
                     skipped |-> 1]

(* C40: taskNeedsClassification(id) is true exactly when id has no record or
   its record is pending with attempts < 3, and it equals the record check
   of sync()'s filter in every store state. *)
C40_SameAsFilter ==
  \A id \in TaskIds :
    /\ taskNeedsClassification(db, id) =
         (~HasTask(db, id) \/
          (db.tasks[id].status = "pending" /\ db.tasks[id].attempts < 3))
    /\ taskNeedsClassification(db, id) = RecordAllows(db, id)

C40_Witness ==
  /\ HasTask(db, "t1") /\ db.tasks["t1"].status = "pending"
  /\ db.tasks["t1"].attempts = 3
  /\ ~taskNeedsClassification(db, "t1") /\ ~RecordAllows(db, "t1")
  /\ ~HasTask(db, "t2") /\ taskNeedsClassification(db, "t2")

====
